---- MODULE Spec2Model ----
(***************************************************************************)
(* The inventory management engine of the marketplace backend              *)
(* (api/books/inventory_management.py) over the two tables it reads,       *)
(* books_book and orders_orderitem.                                        *)
(*                                                                         *)
(* Numbers.  The engine computes in floating point; the model computes the *)
(* same expressions exactly: a ratio is kept as numerator and denominator, *)
(* a square root as its radicand, and every comparison and every round()   *)
(* is decided on integers.  A value the engine rounds to two decimals is   *)
(* stored in hundredths (field names ending in _x100).  Prices are whole   *)
(* currency units.  Titles and authors are display text the engine copies  *)
(* through and are left out.                                               *)
(*                                                                         *)
(* Beside the engine, the request handlers of the order view set           *)
(* (api/orders/views.py) over the rows of orders_order.                    *)
(***************************************************************************)
EXTENDS Integers, Sequences, FiniteSets, Bags, TLC

\* ------------------------------------------------------------------ bounds

MaxBooks == 3
MaxOrderItems == 3
MaxItemQuantity == 2
MaxStock == 4
\* The order items of a busy month.
BulkOrders == 10

BookIds == 1..MaxBooks
Sellers == {"s1", "s2"}
Prices == {0, 20, 50, 150, 800, 1500}
\* The catalogs of the ABC analysis: values 800, 150 and 50 are the 80% / 95% / 100%
\* catalog, and a quantity of 0 gives a value of 0.
AbcPrices == {50, 150, 800}
AbcQuantities == {0, 1}
\* Days between DATE(created_at) of an order item and NOW().
Ages == {1, 2, 45, 100}
Horizons == {0, 1, 30}

\* The value of books[b] when books_book holds no row with id b.
NoBook == [price |-> -1]
NoResult == [op |-> "none"]

MaxOrders == 2
OrderIds == 1..MaxOrders
\* The value of orders[o] when orders_order holds no row with id o.
NoOrder == [status |-> "none"]
NoOrders == [o \in OrderIds |-> NoOrder]

\* ------------------------------------------------------------------- state

VARIABLES
    engine,      \* the InventoryManagementEngine object's fields
    books,       \* books_book: id -> row, or NoBook
    orderitems,  \* orders_orderitem: the bag of its rows (book, quantity, age)
    numeric,     \* how the driver hands back a NUMERIC column
    result,      \* the last engine call, or request on an order, and what it returned
    orders       \* orders_order: id -> row (status, payment_status, khalti_payment_id), or NoOrder

vars == <<engine, books, orderitems, numeric, result, orders>>

BookRows == [price : Prices, quantity : 0..MaxStock, seller : Sellers, is_active : BOOLEAN]
ItemKinds == [book : BookIds, quantity : 1..MaxItemQuantity, age : Ages]

\* -------------------------------------------------------------- arithmetic

RECURSIVE SumOver(_, _)
\* The sum of f[x] over the finite set S.
SumOver(S, f) ==
    IF S = {} THEN 0
    ELSE LET x == CHOOSE y \in S : TRUE IN f[x] + SumOver(S \ {x}, f)

RECURSIVE SeqSum(_)
SeqSum(s) == IF s = <<>> THEN 0 ELSE Head(s) + SeqSum(Tail(s))

Max2(a, b) == IF a >= b THEN a ELSE b

RECURSIVE FracLeq(_, _, _, _)
\* a / b <= c / d for a, c >= 0 and b, d > 0, by continued fractions: no product
\* of two of the four numbers is formed.
FracLeq(a, b, c, d) ==
    IF a \div b # c \div d THEN a \div b < c \div d
    ELSE IF a % b = 0 THEN TRUE
    ELSE IF c % d = 0 THEN FALSE
    ELSE FracLeq(d, c % d, b, a % b)

RECURSIVE ISqrtIn(_, _, _)
\* The largest r in lo..hi with r * r <= n, given lo * lo <= n.
ISqrtIn(n, lo, hi) ==
    IF lo >= hi THEN lo
    ELSE LET mid == (lo + hi + 1) \div 2
         IN IF mid * mid <= n THEN ISqrtIn(n, mid, hi) ELSE ISqrtIn(n, lo, mid - 1)

\* floor(sqrt(n)) for 0 <= n < 2^31.
ISqrt(n) == ISqrtIn(n, 0, IF n < 46340 THEN n ELSE 46340)

\* Python's round(n / d) for d > 0: to the nearest integer, a tie to the even one.
RoundRat(n, d) ==
    LET k == (2 * n + d) \div (2 * d)
    IN IF (2 * n + d) % (2 * d) = 0 /\ k % 2 = 1 THEN k - 1 ELSE k

\* ------------------------------------------------------------- the engine

\* InventoryManagementEngine.__init__: 1.5, 0.2 and the thresholds 0.8, 0.95, 1.0
\* as ratios <<numerator, denominator>>.
NewEngine ==
    [safety_factor |-> <<3, 2>>,
     reorder_point_factor |-> <<1, 5>>,
     abc_thresholds |-> [A |-> <<4, 5>>, B |-> <<19, 20>>, C |-> <<1, 1>>]]

\* ------------------------------------------------------------- the queries

\* The rows of orders_orderitem that differ in book, quantity or age.
Rows == BagToSet(orderitems)

\* SELECT COUNT(*) FROM orders_orderitem WHERE book_id = b AND created_at >= NOW() - INTERVAL 'days'
CountItems(b, days) ==
    SumOver({k \in Rows : k.book = b /\ k.age <= days}, orderitems)

\* The filter with the seller forgotten.
ActiveBooksAnySeller(s) ==
    {b \in BookIds : books[b] # NoBook /\ books[b].is_active}

\* The filter with is_active forgotten.
ActiveBooksAnyState(s) ==
    {b \in BookIds : books[b] # NoBook /\ books[b].seller = s}

\* The ids of the rows WHERE seller_id = s AND is_active = true.
ActiveBooks(s) ==
    {b \in BookIds : books[b] # NoBook /\ books[b].seller = s /\ books[b].is_active}

\* CAST(b.price AS FLOAT) * b.quantity
InventoryValue(b) == books[b].price * books[b].quantity

\* --------------------------------------------------------- perform_abc_analysis

\* The orders in which the rows of seller s can reach the loop: the query sorts by
\* value, descending, sorted() is stable, and rows of equal value come in any order.
SortedBooks(s) ==
    LET S == ActiveBooks(s)
        n == Cardinality(S)
    IN {o \in [1..n -> S] :
          /\ \A i, j \in 1..n : i # j => o[i] # o[j]
          /\ \A i \in 1..(n - 1) : InventoryValue(o[i]) >= InventoryValue(o[i + 1])}

\* total_value = sum(book[5] for book in books)
TotalValue(o) == SeqSum([j \in 1..Len(o) |-> InventoryValue(o[j])])

\* The loop classifying a row before it adds the row's value.
CumulativeValueBeforeAdd(o, i) == SeqSum([j \in 1..(i - 1) |-> InventoryValue(o[j])])

\* cumulative_value when the loop has added row i of the order o.
CumulativeValue(o, i) == SeqSum([j \in 1..i |-> InventoryValue(o[j])])

\* The comparison with < for <=.
AtMostThresholdStrict(cum, total, t) ==
    IF total > 0 THEN cum * t[2] < t[1] * total ELSE TRUE

\* The comparison with the percentage of an empty total taken as 1.
AtMostThresholdZeroAsOne(cum, total, t) ==
    IF total > 0 THEN cum * t[2] <= t[1] * total ELSE t[2] <= t[1]

\* cumulative_percentage <= threshold, on cumulative_value / total_value (0 when
\* total_value is 0).
AtMostThreshold(cum, total, t) ==
    IF total > 0 THEN cum * t[2] <= t[1] * total ELSE TRUE

\* The if / elif / else of the loop body.
Category(cum, total) ==
    IF AtMostThreshold(cum, total, engine.abc_thresholds.A) THEN "A"
    ELSE IF AtMostThreshold(cum, total, engine.abc_thresholds.B) THEN "B"
    ELSE "C"

\* book_data of row i of the order o; cumulative_percentage is round(p * 100, 2).
BookData(o, i, total) ==
    LET b == o[i]
        cum == CumulativeValue(o, i)
    IN [book_id |-> b,
        price |-> books[b].price,
        quantity |-> books[b].quantity,
        inventory_value |-> InventoryValue(b),
        monthly_sales |-> CountItems(b, 30),
        cumulative_percentage_x100 |-> IF total > 0 THEN RoundRat(cum * 10000, total) ELSE 0]

\* categories[c] after the loop: the rows of category c, in loop order.
CategoryList(o, total, c) ==
    LET n == Len(o)
        idx == {i \in 1..n : Category(CumulativeValue(o, i), total) = c}
        nth(k) == CHOOSE i \in idx : Cardinality({j \in idx : j < i}) = k - 1
    IN [k \in 1..Cardinality(idx) |-> BookData(o, nth(k), total)]

ListValue(l) == SeqSum([k \in 1..Len(l) |-> l[k].inventory_value])

\* What perform_abc_analysis returns when the rows arrive in the order o.
AbcAnalysis(o) ==
    IF Len(o) = 0
    THEN [A |-> <<>>, B |-> <<>>, C |-> <<>>, total_value |-> 0]
    ELSE LET total == TotalValue(o)
             a == CategoryList(o, total, "A")
             b == CategoryList(o, total, "B")
             c == CategoryList(o, total, "C")
         IN [A |-> a, B |-> b, C |-> c,
             total_value |-> total,
             category_summary |->
                 [A |-> [count |-> Len(a), value |-> ListValue(a)],
                  B |-> [count |-> Len(b), value |-> ListValue(b)],
                  C |-> [count |-> Len(c), value |-> ListValue(c)]]]

PerformAbcAnalysis(s) ==
    /\ \E o \in SortedBooks(s) :
         result' = [op |-> "perform_abc_analysis", seller_id |-> s, order |-> o,
                    returned |-> AbcAnalysis(o)]
    /\ UNCHANGED <<orders, engine, books, orderitems, numeric>>

\* ------------------------------------------------------------ completions

\* A call that returns v, and a call that ends by raising the exception e.
Return(v) == [returned |-> v]
Raise(e) == [raised |-> e]
Returned(r) == "returned" \in DOMAIN r

\* --------------------------------------------------- calculate_demand_forecast

\* The window of a year for the 90 days.
ForecastWindowYear == 90 + 275

\* INTERVAL '90 days' of the forecast query.
ForecastWindow == 90

RECURSIVE Descending(_)
\* The members of a finite set of integers, the largest first.
Descending(S) ==
    IF S = {} THEN <<>>
    ELSE LET m == CHOOSE x \in S : \A y \in S : y <= x
         IN <<m>> \o Descending(S \ {m})

\* SUM(oi.quantity) of the rows of book b dated d.
DailySalesOn(b, d) ==
    LET S == {k \in Rows : k.book = b /\ k.age = d}
    IN SumOver(S, [k \in S |-> k.quantity * orderitems[k]])

\* The query grouping by date and quantity: a day with orders of two quantities
\* comes back as two rows.
SalesDataByQuantity(b) ==
    LET S == {k \in Rows : k.book = b /\ k.age <= ForecastWindow}
        key(k) == 10 * k.age + k.quantity
        keys == Descending({key(k) : k \in S})
        row(i) == CHOOSE k \in S : key(k) = keys[i]
    IN [i \in 1..Len(keys) |-> <<row(i).age, row(i).quantity * orderitems[row(i)]>>]

\* sales_data: one row <<sale_date, daily_sales>> per day of the last 90 on which
\* book b sold, ORDER BY sale_date (the oldest day, the largest age, first).
SalesData(b) ==
    LET days == Descending({k.age : k \in {r \in Rows : r.book = b /\ r.age <= ForecastWindow}})
    IN [i \in 1..Len(days) |-> <<days[i], DailySalesOn(b, days[i])>>]

\* len(xs) * sum(x * x) - sum(x) ** 2: the variance of xs times len(xs) ** 2.
Spread(xs) ==
    Len(xs) * SeqSum([i \in 1..Len(xs) |-> xs[i] * xs[i]]) - SeqSum(xs) * SeqSum(xs)

\* round((p + sign * sqrt(j)) / n) for n > 0, j >= 0, sign 1 or -1 and a value >= 0.
RoundWithRoot(p, sign, j, n) ==
    LET s == ISqrt(j)
        \* floor(2 * sqrt(j)), without forming 4 * j
        twice == IF j > s * s + s THEN 2 * s + 1 ELSE 2 * s
    IN IF s * s = j THEN RoundRat(p + sign * s, n)
       ELSE IF sign = 1 THEN (2 * p + n + twice) \div (2 * n)
       ELSE (2 * p + n - twice - 1) \div (2 * n)

\* The lower bound without its floor.
ConfidenceLowerUnclamped(p, j, n) == RoundWithRoot(p, -1, j, n)

\* round(max(0, forecasted_demand - confidence_margin), 2) in hundredths, for
\* forecasted_demand = p / (100 n) and confidence_margin = sqrt(j) / (100 n).
ConfidenceLower(p, j, n) ==
    IF p <= ISqrt(j) THEN 0 ELSE RoundWithRoot(p, -1, j, n)

\* What calculate_demand_forecast(b, days) returns, with the two locals the
\* returned dict does not show: demand_std = sqrt(std_sq[1] / std_sq[2]) and
\* confidence_margin = sqrt(margin_sq[1] / margin_sq[2]).
DemandForecast(b, days) ==
    LET sales_data == SalesData(b)
        daily_sales == [i \in 1..Len(sales_data) |-> sales_data[i][2]]
        n == Len(daily_sales)
        total == SeqSum(daily_sales)
        \* np.std(daily_sales) if len(daily_sales) > 1 else 0, times n, squared
        spread == IF n > 1 THEN Spread(daily_sales) ELSE 0
        \* 1.96 * demand_std * sqrt(days) if demand_std > 0 else 0, times 100 n, squared
        j == IF spread > 0 THEN 38416 * spread * days ELSE 0
        \* avg_daily_demand * days, times 100 n
        p == 100 * total * days
    IN IF n = 0
       THEN [locals |-> [std_sq |-> <<0, 1>>, margin_sq |-> <<0, 1>>],
             returned |->
                [avg_daily_demand_x100 |-> 0,
                 demand_std_x100 |-> 0,
                 forecasted_demand_x100 |-> 0,
                 confidence_interval |-> [lower_x100 |-> 0, upper_x100 |-> 0],
                 data_points |-> 0,
                 forecast_method |-> "no_data"]]
       ELSE [locals |-> [std_sq |-> <<spread, n * n>>, margin_sq |-> <<j, 10000 * n * n>>],
             returned |->
                [avg_daily_demand_x100 |-> RoundRat(100 * total, n),
                 demand_std_x100 |-> RoundWithRoot(0, 1, 10000 * spread, n),
                 forecasted_demand_x100 |-> RoundRat(p, n),
                 confidence_interval |->
                    [lower_x100 |-> ConfidenceLower(p, j, n),
                     upper_x100 |-> RoundWithRoot(p, 1, j, n)],
                 data_points |-> n,
                 forecast_method |-> "simple_moving_average"]]

CalculateDemandForecast(b, days) ==
    /\ result' = [op |-> "calculate_demand_forecast", book_id |-> b, days |-> days]
                    @@ DemandForecast(b, days)
    /\ UNCHANGED <<orders, engine, books, orderitems, numeric>>

\* ------------------------------------------------------ calculate_safety_stock

\* INTERVAL '90 days' of the safety stock query.
SafetyWindow == 90

\* row[2] < 3: the data points the formula needs.
MinDataPointsTwo == 3 - 1
MinDataPoints == 3

\* return 0 for return 1.
DefaultSafetyStockZero == <<0, 1>>

\* return 1: the default safety stock.  A safety stock is kept as <<n, d>>, the
\* value being sqrt(n / d).
DefaultSafetyStock == <<1, 1>>

\* The row of the aggregate query for book b: COUNT(*), and STDDEV(oi.quantity) as
\* sqrt(spread / (n * (n - 1))), NULL under two rows.
DemandVariability(b) ==
    LET S == {k \in Rows : k.book = b /\ k.age <= SafetyWindow}
        n == SumOver(S, orderitems)
        sum == SumOver(S, [k \in S |-> k.quantity * orderitems[k]])
        squares == SumOver(S, [k \in S |-> k.quantity * k.quantity * orderitems[k]])
    IN [data_points |-> n,
        std_is_null |-> n < 2,
        spread |-> n * squares - sum * sum]

\* calculate_safety_stock(b).  STDDEV over an integer column is NUMERIC, which the
\* driver hands back as a float or as a decimal.Decimal; 1.96 * Decimal raises
\* TypeError.  1.96 ** 2 * 7 = 16807 / 625.
SafetyStock(b) ==
    LET row == DemandVariability(b)
        n == row.data_points
    IN IF row.std_is_null \/ row.spread = 0 \/ n < MinDataPoints
       THEN Return(DefaultSafetyStock)
       ELSE IF numeric = "Decimal" THEN Raise("TypeError")
       ELSE LET num == 16807 * row.spread
                den == 625 * n * (n - 1)
            IN Return(IF num >= den THEN <<num, den>> ELSE <<1, 1>>)

CalculateSafetyStock(b) ==
    /\ result' = [op |-> "calculate_safety_stock", book_id |-> b] @@ SafetyStock(b)
    /\ UNCHANGED <<orders, engine, books, orderitems, numeric>>

\* ------------------------------------------------------------ real values

\* A value sqrt(n / d) + p / q is kept as [root |-> <<n, d>>, plus |-> <<p, q>>],
\* with n, p >= 0 and d, q > 0.
Real(root, plus) == [root |-> root, plus |-> plus]

\* num / den <= x, for den > 0.
LeqReal(num, den, x) ==
    LET l == num * x.plus[2] - x.plus[1] * den
        r == den * x.plus[2]
    IN l <= 0 \/ FracLeq(l * l, r * r, x.root[1], x.root[2])

\* num / den >= x, for den > 0.
GeqReal(num, den, x) ==
    LET l == num * x.plus[2] - x.plus[1] * den
        r == den * x.plus[2]
    IN l >= 0 /\ FracLeq(x.root[1], x.root[2], l * l, r * r)

\* round(x, 0): the nearest integer, a tie to the even one.
RoundReal(x) ==
    LET low == ISqrt(x.root[1] \div x.root[2]) + (x.plus[1] \div x.plus[2])
        up == CHOOSE k \in low..(low + 2) :
                 /\ LeqReal(2 * k - 1, 2, x)
                 /\ \A j \in low..(low + 2) : LeqReal(2 * j - 1, 2, x) => j <= k
    IN IF GeqReal(2 * up - 1, 2, x) /\ up % 2 = 1 THEN up - 1 ELSE up

\* ------------------------------------------------------------ get_stock_status

\* Python's None.
None == [None |-> TRUE]

\* A number the engine rounds to one decimal, in tenths.
Tenths(v) == [x10 |-> v]

\* INTERVAL '30 days' of the stockout query.
StockoutWindow == 30

\* No demand assumed where none was recorded.
DefaultDailyDemandZero == <<0, 1>>
\* The 0.1 a day assumed where no sale was recorded, as a ratio.
DefaultDailyDemand == <<1, 10>>

\* calculate_days_until_stockout(current_quantity, reorder_point).  The query
\* averages the daily sales of every book, not of the book analysed; without a
\* sale in the window the average is taken as 0.1.
DaysUntilStockout(current_quantity, reorder_point) ==
    IF current_quantity <= 0 THEN Tenths(0)
    ELSE LET S == {k \in Rows : k.age <= StockoutWindow}
             days == Cardinality({k.age : k \in S})
             sold == SumOver(S, [k \in S |-> k.quantity * orderitems[k]])
             \* avg_daily_demand as a ratio
             avg == IF days > 0 /\ sold > 0 THEN <<sold, days>> ELSE DefaultDailyDemand
         IN IF avg[1] <= 0 THEN None
            ELSE Tenths(RoundRat(10 * current_quantity * avg[2], avg[1]))

\* The first comparison with < for <=.
StockStatusStrict(current_quantity, reorder_point, safety_stock) ==
    LET level == IF ~GeqReal(current_quantity, 1, Real(safety_stock, <<0, 1>>)) THEN 1
                 ELSE IF LeqReal(current_quantity, 1, reorder_point) THEN 2
                 ELSE 3
    IN [status |-> <<"CRITICAL", "LOW", "OK">>[level],
        priority |-> <<"HIGH", "MEDIUM", "LOW">>[level],
        days_until_stockout |-> DaysUntilStockout(current_quantity, reorder_point)]

\* The comparisons made on the two values as the analysis returns them, rounded.
StockStatusOnRounded(current_quantity, reorder_point, safety_stock) ==
    LET level == IF current_quantity <= RoundReal(Real(safety_stock, <<0, 1>>)) THEN 1
                 ELSE IF current_quantity <= RoundReal(reorder_point) THEN 2
                 ELSE 3
    IN [status |-> <<"CRITICAL", "LOW", "OK">>[level],
        priority |-> <<"HIGH", "MEDIUM", "LOW">>[level],
        days_until_stockout |-> DaysUntilStockout(current_quantity, reorder_point)]

\* The priority of a LOW status set to that of OK.
StockStatusLowAsOk(current_quantity, reorder_point, safety_stock) ==
    LET level == IF LeqReal(current_quantity, 1, Real(safety_stock, <<0, 1>>)) THEN 1
                 ELSE IF LeqReal(current_quantity, 1, reorder_point) THEN 2
                 ELSE 3
    IN [status |-> <<"CRITICAL", "LOW", "OK">>[level],
        priority |-> <<"HIGH", "LOW", "LOW">>[level],
        days_until_stockout |-> DaysUntilStockout(current_quantity, reorder_point)]

\* get_stock_status(current_quantity, reorder_point, safety_stock); the message,
\* which is fixed by the status, is left out.
StockStatus(current_quantity, reorder_point, safety_stock) ==
    LET level == IF LeqReal(current_quantity, 1, Real(safety_stock, <<0, 1>>)) THEN 1
                 ELSE IF LeqReal(current_quantity, 1, reorder_point) THEN 2
                 ELSE 3
    IN [status |-> <<"CRITICAL", "LOW", "OK">>[level],
        priority |-> <<"HIGH", "MEDIUM", "LOW">>[level],
        days_until_stockout |-> DaysUntilStockout(current_quantity, reorder_point)]

\* ------------------------------------------- calculate_economic_order_quantity

\* INTERVAL '30 days' and INTERVAL '90 days' of the two demand counts.
MonthWindow == 30
\* The quarter's count taken over a year.
QuarterWindowYear == 90 + 275
QuarterWindow == 90
\* An ordering cost of twice the engine's.
OrderingCostDouble == 5 + 5
\* ordering_cost and lead_time_days.
OrderingCost == 5
\* A lead time of a fortnight.
LeadTimeFortnight == 7 + 7
LeadTimeDays == 7

\* The first query with is_active = true among its conditions.
BookDetailsOnSale(b) ==
    IF books[b] = NoBook \/ ~books[b].is_active THEN None
    ELSE [price |-> books[b].price,
          current_quantity |-> books[b].quantity,
          monthly_demand |-> CountItems(b, MonthWindow),
          quarterly_demand |-> CountItems(b, QuarterWindow)]

\* The row the first query of calculate_economic_order_quantity(b) fetches, None
\* without a book of that id.
BookDetails(b) ==
    IF books[b] = NoBook THEN None
    ELSE [price |-> books[b].price,
          current_quantity |-> books[b].quantity,
          monthly_demand |-> CountItems(b, MonthWindow),
          quarterly_demand |-> CountItems(b, QuarterWindow)]

\* The total with the holding cost forgotten.
TotalAnnualCostOrderingOnly(annual_demand, price) ==
    IF price > 0 /\ annual_demand > 0
    THEN RoundWithRoot(0, 1, 3750 * annual_demand * price, 1)
    ELSE 100 * OrderingCost * annual_demand

\* round(total_annual_cost, 2) in hundredths: (annual_demand / eoq) * ordering_cost
\* + (eoq / 2) * holding_cost_per_unit, computed because eoq > 0.  With the
\* formula's eoq both terms are sqrt(annual_demand * 5 * 0.15 * price / 2) and the
\* total is sqrt(15000 * annual_demand * price) / 100; with eoq = 1 it is
\* 5 * annual_demand + 0.075 * price.
TotalAnnualCost(annual_demand, price) ==
    IF price > 0 /\ annual_demand > 0
    THEN RoundWithRoot(0, 1, 15000 * annual_demand * price, 1)
    ELSE RoundRat(100 * (40 * OrderingCost * annual_demand + 3 * price), 40)

\* What calculate_economic_order_quantity(b) returns once its first query has
\* fetched row and calculate_safety_stock has ended in stock, with the locals the
\* returned dict shows only rounded.  holding_cost_per_unit is 0.15 * price, so
\* eoq = sqrt(2 * annual_demand * 5 / (0.15 * price)) = sqrt(200 a / (3 price)) and
\* total_annual_cost = sqrt(10 * a * 0.15 * price) = sqrt(15000 a price) / 100.
EoqOf(b, row, stock) ==
    IF row = None THEN Return(None)
    ELSE
    LET price == row.price
        current_quantity == row.current_quantity
        monthly_demand == row.monthly_demand
        quarterly_demand == row.quarterly_demand
        annual_demand == Max2(monthly_demand * 12, quarterly_demand * 4)
        formula == price > 0 /\ annual_demand > 0
        eoq == IF formula
               THEN <<2 * annual_demand * OrderingCost * 20, 3 * price>>
               ELSE <<1, 1>>
        \* daily_demand * lead_time_days
        lead_time_demand == <<annual_demand * LeadTimeDays, 365>>
    IN IF ~Returned(stock) THEN stock
       ELSE
       LET safety_stock == stock.returned
           reorder_point == Real(safety_stock, lead_time_demand)
       IN [locals |-> [eoq |-> eoq,
                       safety_stock |-> safety_stock,
                       reorder_point |-> reorder_point],
           returned |->
              [book_id |-> b,
               current_quantity |-> current_quantity,
               price |-> price,
               economic_order_quantity |-> RoundReal(Real(eoq, <<0, 1>>)),
               safety_stock |-> RoundReal(Real(safety_stock, <<0, 1>>)),
               reorder_point |-> RoundReal(reorder_point),
               annual_demand |-> annual_demand,
               monthly_demand |-> monthly_demand,
               daily_demand_x100 |-> RoundRat(100 * annual_demand, 365),
               ordering_cost |-> OrderingCost,
               holding_cost_per_unit_x100 |-> 15 * price,
               total_annual_cost_x100 |-> TotalAnnualCost(annual_demand, price),
               stock_status |-> StockStatus(current_quantity, reorder_point, safety_stock)]]

\* calculate_economic_order_quantity(b) on the data as it is now.
EconomicOrderQuantity(b) ==
    EoqOf(b, BookDetails(b), IF books[b] = NoBook THEN Return(None) ELSE SafetyStock(b))

\* calculate_days_until_stockout reading the demand whatever the stock.
StockoutReadsAlways(current_quantity) == <<"avg_daily_demand">>

\* The queries calculate_days_until_stockout issues: none without stock.
StockoutReads(current_quantity) ==
    IF current_quantity <= 0 THEN <<>> ELSE <<"avg_daily_demand">>

\* The queries calculate_economic_order_quantity(b) issues, in order: the book's
\* row with its two counts, then the variability of calculate_safety_stock, then
\* the average of calculate_days_until_stockout.
EoqReads(b) ==
    IF books[b] = NoBook THEN <<"book_details">>
    ELSE IF ~Returned(SafetyStock(b)) THEN <<"book_details", "demand_variability">>
    ELSE <<"book_details", "demand_variability">> \o StockoutReads(books[b].quantity)

CalculateEconomicOrderQuantity(b) ==
    /\ result' = [op |-> "calculate_economic_order_quantity", book_id |-> b,
                  reads |-> EoqReads(b)]
                    @@ EconomicOrderQuantity(b)
    /\ UNCHANGED <<orders, engine, books, orderitems, numeric>>

\* ------------------------------------------------------ calculate_stock_turnover

\* The orders in which a query without ORDER BY may hand back the rows of S.
RowOrders(S) ==
    {o \in [1..Cardinality(S) -> S] : \A i, j \in 1..Cardinality(S) : o[i] = o[j] => i = j}

\* The thresholds of categorize_turnover.
HighTurnover == 12
MediumTurnover == 4

\* categorize_turnover with > for >=.
CategorizeTurnoverStrict(ratio) ==
    IF ratio[1] > HighTurnover * ratio[2] THEN "HIGH"
    ELSE IF ratio[1] > MediumTurnover * ratio[2] THEN "MEDIUM"
    ELSE "LOW"

\* categorize_turnover(turnover_ratio), the ratio as <<numerator, denominator>>.
CategorizeTurnover(ratio) ==
    IF ratio[1] >= HighTurnover * ratio[2] THEN "HIGH"
    ELSE IF ratio[1] >= MediumTurnover * ratio[2] THEN "MEDIUM"
    ELSE "LOW"

AnnualSales(b) == Max2(CountItems(b, MonthWindow) * 12, CountItems(b, QuarterWindow) * 4)

\* The ratio with the stock of another row in place of the book's own.
TurnoverRatioPerUnit(b) == <<AnnualSales(b), 1>>

\* turnover_ratio: annual_sales / avg_inventory, 0 for a book without stock.
TurnoverRatio(b) ==
    IF books[b].quantity > 0 THEN <<AnnualSales(b), books[b].quantity>> ELSE <<0, 1>>

RECURSIVE TotalTurnover(_, _)
\* total_turnover after the first i rows of o, as a ratio.
TotalTurnover(o, i) ==
    IF i = 0 THEN <<0, 1>>
    ELSE LET t == TotalTurnover(o, i - 1)
             r == TurnoverRatio(o[i])
         IN <<t[1] * r[2] + r[1] * t[2], t[2] * r[2]>>

\* The dict calculate_stock_turnover returns for the rows in the order o, with
\* the unrounded total and average it keeps in locals.
StockTurnover(o) ==
    LET total_items == Len(o)
        total_turnover == TotalTurnover(o, total_items)
        avg_turnover == IF total_items > 0
                        THEN <<total_turnover[1], total_turnover[2] * total_items>>
                        ELSE <<0, 1>>
        turnover_data ==
            [i \in 1..total_items |->
                [book_id |-> o[i],
                 price |-> books[o[i]].price,
                 current_stock |-> books[o[i]].quantity,
                 annual_sales |-> AnnualSales(o[i]),
                 turnover_ratio_x100 |-> RoundRat(100 * TurnoverRatio(o[i])[1], TurnoverRatio(o[i])[2]),
                 turnover_category |-> CategorizeTurnover(TurnoverRatio(o[i]))]]
        count(c) == Cardinality({i \in 1..total_items : turnover_data[i].turnover_category = c})
    IN [locals |-> [total_turnover |-> total_turnover, avg_turnover |-> avg_turnover],
        returned |->
           [books |-> turnover_data,
            average_turnover_x100 |-> RoundRat(100 * avg_turnover[1], avg_turnover[2]),
            total_items |-> total_items,
            turnover_summary |-> [high |-> count("HIGH"),
                                  medium |-> count("MEDIUM"),
                                  low |-> count("LOW")]]]

CalculateStockTurnover(s) ==
    /\ \E o \in RowOrders(ActiveBooks(s)) :
         result' = [op |-> "calculate_stock_turnover", seller_id |-> s, order |-> o]
                      @@ StockTurnover(o)
    /\ UNCHANGED <<orders, engine, books, orderitems, numeric>>

\* ------------------------------------------------- get_inventory_recommendations

\* One line of advice: the rule that produced it and the count its text carries.
Advice(rule, count) == [rule |-> rule, count |-> count]

\* The advice of a rule whose condition holds, in a list of its own.
AdviceIf(rule, count) == IF count > 0 THEN <<Advice(rule, count)>> ELSE <<>>

\* generate_recommendations with the portfolio advice ahead of the urgent one.
GenerateRecommendationsPortfolioFirst(critical_items, low_stock_items, abc_analysis, turnover_analysis) ==
    AdviceIf("Focus", Len(abc_analysis.A))
    \o AdviceIf("Review", Len(abc_analysis.C))
    \o AdviceIf("URGENT", Len(critical_items))
    \o AdviceIf("Monitor", Len(low_stock_items))
    \o AdviceIf("Optimize", turnover_analysis.turnover_summary.low)

\* generate_recommendations(critical_items, low_stock_items, abc_analysis,
\* turnover_analysis): a list is tested for being non-empty, a count for > 0.
GenerateRecommendations(critical_items, low_stock_items, abc_analysis, turnover_analysis) ==
    AdviceIf("URGENT", Len(critical_items))
    \o AdviceIf("Monitor", Len(low_stock_items))
    \o AdviceIf("Focus", Len(abc_analysis.A))
    \o AdviceIf("Review", Len(abc_analysis.C))
    \o AdviceIf("Optimize", turnover_analysis.turnover_summary.low)

\* The second test as an if of its own on any urgency.
LowStockItemAnyUrgency(a) == a.stock_status.priority # "LOW"

\* The elif of line 417: the analysis is filed as low on stock when its priority
\* is not HIGH and is MEDIUM.
LowStockItem(a) ==
    a.stock_status.priority # "HIGH" /\ a.stock_status.priority = "MEDIUM"

\* The dict get_inventory_recommendations(s) returns when the calls it made for
\* its book ids ended in analyses (in the order of the ids, every one of them a
\* return) and the two portfolio calls returned abc_analysis and
\* turnover_analysis.
RecommendationsOf(s, analyses, abc_analysis, turnover_analysis) ==
    LET Present(a) == a.returned # None
        eoq_analyses == [i \in 1..Len(SelectSeq(analyses, Present)) |->
                            SelectSeq(analyses, Present)[i].returned]
        Critical(a) == a.stock_status.priority = "HIGH"
        critical_items == SelectSeq(eoq_analyses, Critical)
        low_stock_items == SelectSeq(eoq_analyses, LowStockItem)
    IN [seller_id |-> s,
        summary |-> [total_books |-> Len(eoq_analyses),
                     critical_items |-> Len(critical_items),
                     low_stock_items |-> Len(low_stock_items),
                     ok_items |-> Len(eoq_analyses) - Len(critical_items)
                                    - Len(low_stock_items)],
        critical_items |-> critical_items,
        low_stock_items |-> low_stock_items,
        abc_analysis |-> abc_analysis,
        turnover_analysis |-> turnover_analysis,
        recommendations |-> GenerateRecommendations(critical_items, low_stock_items,
                                                    abc_analysis, turnover_analysis)]

\* The first of the analyses that is not a return, 0 when all are.
FirstRaise(analyses) ==
    IF \A i \in 1..Len(analyses) : Returned(analyses[i]) THEN 0
    ELSE CHOOSE i \in 1..Len(analyses) :
            /\ ~Returned(analyses[i])
            /\ \A j \in 1..(i - 1) : Returned(analyses[j])

RECURSIVE ReadsOfAnalyses(_, _)
\* The queries of the calls made for the first n ids.
ReadsOfAnalyses(ids, n) ==
    IF n = 0 THEN <<>> ELSE ReadsOfAnalyses(ids, n - 1) \o EoqReads(ids[n])

\* get_inventory_recommendations(s) on the data as it is now, the three catalog
\* queries handing back their rows in the orders ids, oa and ot.  An analysis
\* that raises ends the call with what it raised.
InventoryRecommendations(s, ids, oa, ot) ==
    LET analyses == [i \in 1..Len(ids) |-> EconomicOrderQuantity(ids[i])]
        failed == FirstRaise(analyses)
    IN IF failed > 0
       THEN [reads |-> <<"book_ids">> \o ReadsOfAnalyses(ids, failed)] @@ analyses[failed]
       ELSE [reads |-> <<"book_ids">> \o ReadsOfAnalyses(ids, Len(ids))
                          \o <<"abc_books", "turnover_books">>,
             locals |-> [book_ids |-> ids, analyses |-> analyses],
             returned |-> RecommendationsOf(s, analyses, AbcAnalysis(oa),
                                            StockTurnover(ot).returned)]

GetInventoryRecommendations(s) ==
    /\ \E ids \in RowOrders(ActiveBooks(s)), oa \in SortedBooks(s),
          ot \in RowOrders(ActiveBooks(s)) :
         result' = [op |-> "get_inventory_recommendations", seller_id |-> s,
                    orders |-> [book_ids |-> ids, abc |-> oa, turnover |-> ot]]
                      @@ InventoryRecommendations(s, ids, oa, ot)
    /\ UNCHANGED <<orders, engine, books, orderitems, numeric>>

\* ------------------------------------------------------- calls, read by read

\* A call of several queries is interleaved with the writes of the views: result
\* then holds the call in progress, in a field call, until it returns or raises.
Running(r) == "call" \in DOMAIN r

\* calculate_economic_order_quantity before its first query: pc names the query
\* it is to issue next.
NewEoqCall == [pc |-> "book_details", row |-> None, stock |-> None]

\* calculate_economic_order_quantity(b) in the state c issues the query c.pc on
\* the data as it is now: it goes on to its next query, or ends ([end |-> ...]).
EoqAdvance(b, c) ==
    CASE c.pc = "book_details" ->
           IF BookDetails(b) = None THEN [end |-> Return(None)]
           ELSE [pc |-> "demand_variability", row |-> BookDetails(b), stock |-> None]
      [] c.pc = "demand_variability" ->
           IF ~Returned(SafetyStock(b)) THEN [end |-> SafetyStock(b)]
           ELSE IF StockoutReads(c.row.current_quantity) = <<>>
           THEN [end |-> EoqOf(b, c.row, SafetyStock(b))]
           ELSE [pc |-> "avg_daily_demand", row |-> c.row, stock |-> SafetyStock(b)]
      [] c.pc = "avg_daily_demand" ->
           [end |-> EoqOf(b, c.row, c.stock)]

Ended(adv) == "end" \in DOMAIN adv

\* A call that begins by tuning the engine.
BeginEoqTuning(b) ==
    /\ ~Running(result)
    /\ result' = [op |-> "calculate_economic_order_quantity", book_id |-> b,
                  reads |-> <<>>, call |-> NewEoqCall]
    /\ engine' = [engine EXCEPT !.safety_factor = <<2, 1>>]
    /\ UNCHANGED <<orders, books, orderitems, numeric>>

BeginEoq(b) ==
    /\ ~Running(result)
    /\ result' = [op |-> "calculate_economic_order_quantity", book_id |-> b,
                  reads |-> <<>>, call |-> NewEoqCall]
    /\ UNCHANGED <<orders, engine, books, orderitems, numeric>>

StepEoq ==
    /\ Running(result)
    /\ result.op = "calculate_economic_order_quantity"
    /\ LET adv == EoqAdvance(result.book_id, result.call)
           done == [op |-> result.op, book_id |-> result.book_id,
                    reads |-> Append(result.reads, result.call.pc)]
       IN result' = IF Ended(adv) THEN done @@ adv.end ELSE done @@ [call |-> adv]
    /\ UNCHANGED <<orders, engine, books, orderitems, numeric>>

\* get_inventory_recommendations before its first query.
NewRecommendationsCall ==
    [pc |-> "book_ids", book_ids |-> <<>>, analyses |-> <<>>, eoq |-> NewEoqCall,
     abc_analysis |-> None]

\* The query a call in progress is to issue next.
NextRead(r) ==
    IF r.op = "get_inventory_recommendations" /\ r.call.pc # "eoq"
    THEN r.call.pc
    ELSE IF r.op = "get_inventory_recommendations" THEN r.call.eoq.pc
    ELSE r.call.pc

BeginRecommendations(s) ==
    /\ ~Running(result)
    /\ result' = [op |-> "get_inventory_recommendations", seller_id |-> s,
                  reads |-> <<>>, call |-> NewRecommendationsCall]
    /\ UNCHANGED <<orders, engine, books, orderitems, numeric>>

\* The loop of get_inventory_recommendations after one more analysis.
AfterAnalysis(c, analysis) ==
    [c EXCEPT !.analyses = Append(c.analyses, analysis),
              !.eoq = NewEoqCall,
              !.pc = IF Len(c.analyses) + 1 = Len(c.book_ids) THEN "abc_books" ELSE "eoq"]

StepRecommendations ==
    /\ Running(result)
    /\ result.op = "get_inventory_recommendations"
    /\ LET c == result.call
           s == result.seller_id
           done == [op |-> result.op, seller_id |-> s,
                    reads |-> Append(result.reads, NextRead(result))]
       IN CASE c.pc = "book_ids" ->
                 \E ids \in RowOrders(ActiveBooks(s)) :
                    result' = done @@ [call |-> [c EXCEPT !.book_ids = ids,
                                                          !.pc = IF Len(ids) = 0
                                                                 THEN "abc_books" ELSE "eoq"]]
            [] c.pc = "eoq" ->
                 LET adv == EoqAdvance(c.book_ids[Len(c.analyses) + 1], c.eoq)
                 IN result' = IF ~Ended(adv) THEN done @@ [call |-> [c EXCEPT !.eoq = adv]]
                              ELSE IF ~Returned(adv.end) THEN done @@ adv.end
                              ELSE done @@ [call |-> AfterAnalysis(c, adv.end)]
            [] c.pc = "abc_books" ->
                 \E oa \in SortedBooks(s) :
                    result' = done @@ [call |-> [c EXCEPT !.abc_analysis = AbcAnalysis(oa),
                                                          !.pc = "turnover_books"]]
            [] c.pc = "turnover_books" ->
                 \E ot \in RowOrders(ActiveBooks(s)) :
                    result' = done @@
                       [locals |-> [book_ids |-> c.book_ids, analyses |-> c.analyses],
                        returned |-> RecommendationsOf(s, c.analyses, c.abc_analysis,
                                                       StockTurnover(ot).returned)]
    /\ UNCHANGED <<orders, engine, books, orderitems, numeric>>

\* ------------------------------------------------------------- failing reads

\* What cursor.execute raises when the data source fails.
ReadError == "DatabaseError"

\* A failed read answered with an empty result instead of the error.
FailedReadMasked(r) ==
    [op |-> r.op, reads |-> Append(r.reads, NextRead(r)), failed |-> Len(r.reads) + 1,
     returned |-> None]

\* The call in progress r after its next query failed: no except clause and no
\* loop surrounds a query, so the error leaves the call.
FailedRead(r) ==
    [op |-> r.op, reads |-> Append(r.reads, NextRead(r)), failed |-> Len(r.reads) + 1]
        @@ Raise(ReadError)

\* The next query of the call in progress fails.
FailRead ==
    /\ Running(result)
    /\ result' = FailedRead(result)
    /\ UNCHANGED <<orders, engine, books, orderitems, numeric>>

\* The one query of calculate_demand_forecast, calculate_safety_stock,
\* perform_abc_analysis or calculate_stock_turnover fails.
FailSingleRead(op, read) ==
    /\ ~Running(result)
    /\ result' = FailedRead([op |-> op, reads |-> <<>>, call |-> [pc |-> read]])
    /\ UNCHANGED <<orders, engine, books, orderitems, numeric>>

\* ----------------------------------------------------------------- the views

\* BookCreateSerializer.create: a new book of seller s1.  Ids are not used again:
\* the book gets an id above every id in use.
CreateBook(b) ==
    /\ b > 1
    /\ books[b] = NoBook
    /\ \A c \in BookIds : c >= b => books[c] = NoBook
    /\ books' = [books EXCEPT ![b] = [price |-> 20, quantity |-> 1,
                                      seller |-> "s1", is_active |-> TRUE]]
    /\ UNCHANGED <<orders, engine, orderitems, numeric, result>>

\* BookViewSet.update: the seller takes the book off sale.
UpdateBook(b) ==
    /\ books[b] # NoBook
    /\ books[b].is_active
    /\ books' = [books EXCEPT ![b].is_active = FALSE]
    /\ UNCHANGED <<orders, engine, orderitems, numeric, result>>

\* BookViewSet.destroy: the row goes, and with it (on_delete=CASCADE) the order
\* items of the book.
DestroyBook(b) ==
    /\ books[b] # NoBook
    /\ books' = [books EXCEPT ![b] = NoBook]
    /\ orderitems' = [k \in {x \in Rows : x.book # b} |-> orderitems[k]]
    /\ UNCHANGED <<orders, engine, numeric, result>>

\* OrderCreateSerializer.create, one of its OrderItem.objects.create calls: an
\* order item of today.
CreateOrderItem(b, q) ==
    /\ books[b] # NoBook
    /\ BagCardinality(orderitems) < MaxOrderItems
    /\ orderitems' = orderitems (+) SetToBag({[book |-> b, quantity |-> q, age |-> 1]})
    /\ UNCHANGED <<orders, engine, books, numeric, result>>

\* ---------------------------------------------------------------- the orders

\* Order.STATUS_CHOICES and Order.PAYMENT_STATUS_CHOICES.
STATUS_CHOICES == {"pending", "paid", "processing", "shipped", "delivered", "cancelled"}
PAYMENT_STATUS_CHOICES == {"pending", "completed", "failed", "cancelled"}
\* The 'status' of an update_status request: a choice, or a value that is none
\* (a missing 'status' is such a value: None is not a key of the choices).
RequestedStatuses == STATUS_CHOICES \cup {"returned"}
\* The 'token' of a verify_khalti_payment request: missing or empty, or a token.
Tokens == {"", "token"}
\* What happens inside the try block of verify_khalti_payment: Khalti confirms the
\* payment; Khalti does not (or cannot be reached: verify_khalti_payment_with_api
\* turns that into success False); the verification call raises; order.save() of
\* the confirmed payment raises.
Verifications == {"success", "failure", "raises", "save_raises"}

\* The fields a request handler reads and writes.  khalti_transaction_id is
\* written together with khalti_payment_id and is left out.
OrderRow(status, payment_status, khalti_payment_id) ==
    [status |-> status, payment_status |-> payment_status,
     khalti_payment_id |-> khalti_payment_id]

\* A request on order o that found `before` and answered `code`.
Answer(op, o, before, code) == [op |-> op, order |-> o, before |-> before, code |-> code]

\* get_object finds no such order among those the user may see: 404, nothing saved.
NotFound(op, o) ==
    /\ orders[o] = NoOrder
    /\ result' = Answer(op, o, NoOrder, 404)
    /\ UNCHANGED <<orders, engine, books, orderitems, numeric>>

\* OrderCreateSerializer.create: the row of a new order, with the defaults of the
\* model.  Ids are not used again.
CreateOrder(o) ==
    /\ orders[o] = NoOrder
    /\ \A c \in OrderIds : c >= o => orders[c] = NoOrder
    /\ orders' = [orders EXCEPT ![o] = OrderRow("pending", "pending", "null")]
    /\ result' = Answer("create", o, NoOrder, 201)
    /\ UNCHANGED <<engine, books, orderitems, numeric>>

\* The row update_status saves for an order read as `order`.
UpdatedStatus(order, new_status) ==
    [order EXCEPT !.status = new_status,
                  !.payment_status =
                      IF new_status = "delivered"
                      THEN (IF order.payment_status = "pending" THEN "completed" ELSE @)
                      ELSE IF new_status = "cancelled" THEN "cancelled" ELSE @]

\* OrderViewSet.update_status.
UpdateStatus(o, new_status) ==
    \/ NotFound("update_status", o)
    \/ /\ orders[o] # NoOrder
       /\ IF new_status \in STATUS_CHOICES
          THEN /\ orders' = [orders EXCEPT ![o] = UpdatedStatus(orders[o], new_status)]
               /\ result' = Answer("update_status", o, orders[o], 200)
          ELSE /\ orders' = orders
               /\ result' = Answer("update_status", o, orders[o], 400)
       /\ UNCHANGED <<engine, books, orderitems, numeric>>

\* The row verify_khalti_payment saves for an order read as `order`, and the
\* status code of its answer.
VerifiedPayment(order, verification) ==
    CASE verification = "success" ->
           <<[order EXCEPT !.payment_status = "completed", !.status = "paid",
                           !.khalti_payment_id = "payment_id"], 200>>
      [] verification = "failure" ->
           <<[order EXCEPT !.payment_status = "failed"], 400>>
      [] verification = "raises" ->
           <<[order EXCEPT !.payment_status = "failed"], 500>>
      [] verification = "save_raises" ->
           <<[order EXCEPT !.payment_status = "failed", !.status = "paid",
                           !.khalti_payment_id = "payment_id"], 500>>

\* OrderViewSet.verify_khalti_payment.
VerifyKhaltiPayment(o, khalti_token, verification) ==
    \/ NotFound("verify_khalti_payment", o)
    \/ /\ orders[o] # NoOrder
       /\ IF khalti_token = ""
          THEN /\ orders' = orders
               /\ result' = Answer("verify_khalti_payment", o, orders[o], 400)
          ELSE LET saved == VerifiedPayment(orders[o], verification)
               IN  /\ orders' = [orders EXCEPT ![o] = saved[1]]
                   /\ result' = Answer("verify_khalti_payment", o, orders[o], saved[2])
       /\ UNCHANGED <<engine, books, orderitems, numeric>>

\* The statuses in which cancel_order cancels.
Cancellable == {"pending", "paid"}

\* OrderViewSet.cancel_order.
CancelOrder(o) ==
    \/ NotFound("cancel_order", o)
    \/ /\ orders[o] # NoOrder
       /\ IF orders[o].status \in Cancellable
          THEN /\ orders' = [orders EXCEPT ![o] = [@ EXCEPT !.status = "cancelled",
                                                             !.payment_status = "cancelled"]]
               /\ result' = Answer("cancel_order", o, orders[o], 200)
          ELSE /\ orders' = orders
               /\ result' = Answer("cancel_order", o, orders[o], 400)
       /\ UNCHANGED <<engine, books, orderitems, numeric>>

\* ---------------------------------------------------------- specifications

\* Any catalog of at most MaxBooks books, nothing sold yet.
InitAbc ==
    /\ orders = NoOrders
    /\ engine = NewEngine
    /\ books \in [BookIds -> {r \in BookRows : r.price \in AbcPrices /\ r.quantity \in AbcQuantities}
                            \cup {NoBook}]
    /\ orderitems = EmptyBag
    /\ numeric = "float"
    /\ result = NoResult

NextAbc == \E s \in Sellers : PerformAbcAnalysis(s)

SpecAbc == InitAbc /\ [][NextAbc]_vars

RECURSIVE SeqToBag(_)
\* The bag of the members of a sequence.
SeqToBag(s) == IF s = <<>> THEN EmptyBag ELSE SetToBag({Head(s)}) (+) SeqToBag(Tail(s))

\* The sales histories of at most MaxOrderItems order items of the books of B.
SalesHistories(B) ==
    LET kinds == {k \in ItemKinds : k.book \in B}
    IN {SeqToBag(s) : s \in UNION {[1..n -> kinds] : n \in 0..MaxOrderItems}}

\* Books 1 and 2 are on sale, every other id is free; any sales history of the two.
InitDemand ==
    /\ orders = NoOrders
    /\ engine = NewEngine
    /\ books = [b \in BookIds |->
                  IF b <= 2
                  THEN [price |-> 20, quantity |-> 1, seller |-> "s1", is_active |-> TRUE]
                  ELSE NoBook]
    /\ orderitems \in SalesHistories({1, 2})
    /\ numeric \in {"float", "Decimal"}
    /\ result = NoResult

NextDemand ==
    \/ \E b \in BookIds, days \in Horizons : CalculateDemandForecast(b, days)
    \/ \E b \in BookIds : CalculateSafetyStock(b)

SpecDemand == InitDemand /\ [][NextDemand]_vars

\* The prices of the analysed book: free, a paperback's and a textbook's.
EoqPrices == {0, 20, 1500}

\* A busy month of book 1: BulkOrders single-copy order items placed yesterday,
\* alone or after one two-copy order item of last quarter.
BulkHistories ==
    LET bulk == [k \in {[book |-> 1, quantity |-> 1, age |-> 1]} |-> BulkOrders]
    IN {bulk, bulk (+) SetToBag({[book |-> 1, quantity |-> 2, age |-> 45]})}

\* Book 1 at any price and stock, book 2 beside it, every other id free; any sales
\* history of book 1, with any number of yesterday's single-copy sales of book 2,
\* or, for a book under the textbook's price, a busy month of book 1.
InitEoq ==
    /\ orders = NoOrders
    /\ engine = NewEngine
    /\ \E r \in {x \in BookRows : x.price \in EoqPrices /\ x.seller = "s1" /\ x.is_active} :
         books = [b \in BookIds |->
                    IF b = 1 THEN r
                    ELSE IF b = 2
                    THEN [price |-> 20, quantity |-> 1, seller |-> "s2", is_active |-> FALSE]
                    ELSE NoBook]
    /\ orderitems \in (IF books[1].price < 1500 THEN BulkHistories ELSE {}) \cup
                      {h \in SalesHistories({1, 2}) :
                          \A k \in BagToSet(h) : k.book = 2 => k.quantity = 1 /\ k.age = 1}
    /\ numeric \in {"float", "Decimal"}
    /\ result = NoResult

NextEoq == \E b \in BookIds : CalculateEconomicOrderQuantity(b)

SpecEoq == InitEoq /\ [][NextEoq]_vars

\* The stocks of the seller's books, and the sales that count: a sale this month,
\* this quarter, or older.
InitTurnover ==
    /\ orders = NoOrders
    /\ engine = NewEngine
    /\ \E q1, q2 \in (0..MaxStock) \cup {-1} :
       \E other \in {NoBook,
                     [price |-> 20, quantity |-> 1, seller |-> "s1", is_active |-> FALSE],
                     [price |-> 20, quantity |-> 1, seller |-> "s2", is_active |-> TRUE]} :
         books = [b \in BookIds |->
                    IF b <= 2
                    THEN LET q == IF b = 1 THEN q1 ELSE q2
                         IN IF q < 0 THEN NoBook
                            ELSE [price |-> 20, quantity |-> q, seller |-> "s1", is_active |-> TRUE]
                    ELSE IF b = 3 THEN other
                    ELSE NoBook]
    /\ orderitems \in {h \in SalesHistories({1, 2}) :
                          \A k \in BagToSet(h) : k.quantity = 1 /\ k.age # 2}
    /\ numeric = "float"
    /\ result = NoResult

NextTurnover == \E s \in Sellers : CalculateStockTurnover(s)

SpecTurnover == InitTurnover /\ [][NextTurnover]_vars

\* Seller s1 with up to two books on sale at any stock, seller s2 with one; the
\* sales of this month and older ones, or a busy month of book 1.
InitRecommend ==
    /\ orders = NoOrders
    /\ engine = NewEngine
    /\ \E q1, q2 \in (0..MaxStock) \cup {-1} :
         books = [b \in BookIds |->
                    IF b <= 2
                    THEN LET q == IF b = 1 THEN q1 ELSE q2
                         IN IF q < 0 THEN NoBook
                            ELSE [price |-> 20, quantity |-> q, seller |-> "s1", is_active |-> TRUE]
                    ELSE IF b = 3
                    THEN [price |-> 20, quantity |-> 1, seller |-> "s2", is_active |-> TRUE]
                    ELSE NoBook]
    /\ orderitems \in BulkHistories \cup
                      {h \in SalesHistories({1, 2}) :
                          \A k \in BagToSet(h) : /\ k.age \in {1, 100}
                                                 /\ k.book = 2 => k.quantity = 1}
    /\ numeric \in {"float", "Decimal"}
    /\ result = NoResult

NextRecommend == \E s \in Sellers : GetInventoryRecommendations(s)

SpecRecommend == InitRecommend /\ [][NextRecommend]_vars

\* The requests on orders: no order to begin with, then orders are placed and
\* any request arrives for any order id, one after the other.  The handlers read
\* and write orders_order alone, and the engine never reads it.
InitOrders ==
    /\ orders = NoOrders
    /\ engine = NewEngine
    /\ books = [b \in BookIds |-> NoBook]
    /\ orderitems = EmptyBag
    /\ numeric = "float"
    /\ result = NoResult

NextOrders ==
    \/ \E o \in OrderIds : CreateOrder(o)
    \/ \E o \in OrderIds, new_status \in RequestedStatuses : UpdateStatus(o, new_status)
    \/ \E o \in OrderIds, khalti_token \in Tokens, verification \in Verifications :
           VerifyKhaltiPayment(o, khalti_token, verification)
    \/ \E o \in OrderIds : CancelOrder(o)

SpecOrders == InitOrders /\ [][NextOrders]_vars

\* The engine beside the views: one book of seller s1 to begin with, the first
\* two ids in use, calls of every operation, each query of which may fail.
Init ==
    /\ orders = NoOrders
    /\ engine = NewEngine
    /\ books = [b \in BookIds |->
                  IF b = 1
                  THEN [price |-> 20, quantity |-> 2, seller |-> "s1", is_active |-> TRUE]
                  ELSE NoBook]
    /\ orderitems = EmptyBag
    /\ numeric \in {"float", "Decimal"}
    /\ result = NoResult

Views ==
    \/ CreateBook(2)
    \/ \E b \in 1..2 : UpdateBook(b)
    \/ DestroyBook(1)
    \/ \E q \in 1..MaxItemQuantity : CreateOrderItem(1, q)

Engine ==
    \/ \E b \in BookIds : BeginEoq(b)
    \/ StepEoq
    \/ \E s \in Sellers : BeginRecommendations(s)
    \/ StepRecommendations
    \/ \E b \in BookIds : ~Running(result) /\ CalculateSafetyStock(b)
    \/ \E b \in BookIds : ~Running(result) /\ CalculateDemandForecast(b, 30)
    \/ \E s \in Sellers : ~Running(result) /\ PerformAbcAnalysis(s)
    \/ \E s \in Sellers : ~Running(result) /\ CalculateStockTurnover(s)

Failures ==
    \/ FailRead
    \/ FailSingleRead("calculate_demand_forecast", "sales_data")
    \/ FailSingleRead("calculate_safety_stock", "demand_variability")
    \/ FailSingleRead("perform_abc_analysis", "abc_books")
    \/ FailSingleRead("calculate_stock_turnover", "turnover_books")

Next == Views \/ Engine \/ Failures

Spec == Init /\ [][Next]_vars

\* ------------------------------------------------------------------ claims

IsAbc == result.op = "perform_abc_analysis"

\* The book ids of a bucket, in the bucket's order.
IdsOf(l) == [k \in 1..Len(l) |-> l[k].book_id]

\* The active books of the seller of the last call, read off the table.
SellersActiveItems ==
    {b \in BookIds : /\ books[b] # NoBook
                     /\ books[b].seller = result.seller_id
                     /\ books[b].is_active = TRUE}

\* C4: the buckets A, B and C of perform_abc_analysis hold every active item of the
\* seller exactly once between them, and nothing else.
C4_BucketsPartitionActiveItems ==
    IsAbc =>
        LET ids == IdsOf(result.returned.A) \o IdsOf(result.returned.B)
                   \o IdsOf(result.returned.C)
        IN /\ {ids[i] : i \in 1..Len(ids)} = SellersActiveItems
           /\ Len(ids) = Cardinality(SellersActiveItems)

\* C4 witness: two buckets are filled while the table also holds a book that is
\* not an active item of the seller.
C4_Witness ==
    /\ IsAbc
    /\ Len(result.returned.A) >= 1
    /\ Len(result.returned.C) >= 1
    /\ \E b \in BookIds : books[b] # NoBook /\ b \notin SellersActiveItems

\* The first row of the walk whose cumulative value is above 80% of the total.
CrossingIndex ==
    LET o == result.order
        over == {i \in 1..Len(o) :
                   5 * SeqSum([j \in 1..i |-> books[o[j]].price * books[o[j]].quantity])
                     > 4 * result.returned.total_value}
    IN CHOOSE i \in over : \A j \in over : i <= j

\* C5 as stated: with a positive total value, the item at which the cumulative share
\* crosses 80% is placed in bucket A.
C5_CrossingItemInA ==
    (IsAbc /\ result.returned.total_value > 0) =>
        \E k \in 1..Len(result.returned.A) :
            result.returned.A[k].book_id = result.order[CrossingIndex]

\* C5 amended: with a positive total value, bucket A's share of the total is at most
\* 80% with no item excepted, and the item at which the cumulative share crosses
\* 80% is in bucket B or C.
C5_ShareOfAAtMost80 ==
    (IsAbc /\ result.returned.total_value > 0) =>
        /\ 5 * SeqSum([k \in 1..Len(result.returned.A) |->
                          result.returned.A[k].inventory_value])
             <= 4 * result.returned.total_value
        /\ \A k \in 1..Len(result.returned.A) :
              result.returned.A[k].book_id # result.order[CrossingIndex]
        /\ \E k \in 1..Len(result.returned.B \o result.returned.C) :
              (result.returned.B \o result.returned.C)[k].book_id
                  = result.order[CrossingIndex]

\* C5 witness: bucket A is filled and a later item crosses 80%.
C5_Witness ==
    /\ IsAbc
    /\ result.returned.total_value > 0
    /\ Len(result.returned.A) >= 1
    /\ CrossingIndex > Len(result.returned.A)

\* The bucket the claim gives row i of the walk, from the values in the table.
ExpectedBucket(i) ==
    LET o == result.order
        cum == SeqSum([j \in 1..i |-> books[o[j]].price * books[o[j]].quantity])
        total == SeqSum([j \in 1..Len(o) |-> books[o[j]].price * books[o[j]].quantity])
    IN IF 100 * cum <= 80 * total THEN "A"
       ELSE IF 100 * cum <= 95 * total THEN "B"
       ELSE "C"

\* The bucket that holds book b in the returned classification.
BucketOf(b) ==
    CHOOSE c \in {"A", "B", "C"} :
        \E k \in 1..Len(result.returned[c]) : result.returned[c][k].book_id = b

\* C6: the walk is in descending inventory value; with a positive total an item is
\* in A when the cumulative value including it is <= 80% of the total, in B when
\* it is > 80% and <= 95%, in C otherwise; values 800, 150, 50 land in A, B, C.
C6_BucketByCumulativeShare ==
    (IsAbc /\ result.returned.total_value > 0) =>
        LET o == result.order
            value(i) == books[o[i]].price * books[o[i]].quantity
        IN /\ \A i \in 1..(Len(o) - 1) : value(i) >= value(i + 1)
           /\ \A i \in 1..Len(o) : BucketOf(o[i]) = ExpectedBucket(i)
           /\ (Len(o) = 3 /\ value(1) = 800 /\ value(2) = 150 /\ value(3) = 50) =>
                 /\ IdsOf(result.returned.A) = <<o[1]>>
                 /\ IdsOf(result.returned.B) = <<o[2]>>
                 /\ IdsOf(result.returned.C) = <<o[3]>>

\* C6 witness: the catalog of values 800, 150, 50 has been classified.
C6_Witness ==
    /\ IsAbc
    /\ Len(result.order) = 3
    /\ result.returned.total_value = 1000
    /\ Len(result.returned.A) = 1 /\ result.returned.A[1].inventory_value = 800
    /\ Len(result.returned.B) = 1 /\ result.returned.B[1].inventory_value = 150
    /\ Len(result.returned.C) = 1 /\ result.returned.C[1].inventory_value = 50

\* C7: with at least one active item and a total inventory value of 0, every item
\* is in bucket A with cumulative percentage 0, and B and C are empty.
C7_ZeroTotalAllInA ==
    (IsAbc /\ SellersActiveItems # {}
          /\ \A b \in SellersActiveItems : books[b].price * books[b].quantity = 0) =>
        /\ {result.returned.A[k].book_id : k \in 1..Len(result.returned.A)}
             = SellersActiveItems
        /\ \A k \in 1..Len(result.returned.A) :
              result.returned.A[k].cumulative_percentage_x100 = 0
        /\ result.returned.B = <<>>
        /\ result.returned.C = <<>>
        /\ result.returned.total_value = 0

\* C7 witness: two active items, both of value 0, have been classified.
C7_Witness ==
    /\ IsAbc
    /\ Cardinality(SellersActiveItems) >= 2
    /\ result.returned.total_value = 0
    /\ Len(result.returned.A) >= 2

\* C8: for a seller with no active items the three buckets are empty and the total
\* value is 0.
C8_EmptyCatalog ==
    (IsAbc /\ SellersActiveItems = {}) =>
        /\ result.returned.A = <<>>
        /\ result.returned.B = <<>>
        /\ result.returned.C = <<>>
        /\ result.returned.total_value = 0

\* C8 witness: the seller of the call has an inactive book, another seller an
\* active one, and the call returned.
C8_Witness ==
    /\ IsAbc
    /\ SellersActiveItems = {}
    /\ \E b \in BookIds : /\ books[b] # NoBook
                          /\ books[b].seller = result.seller_id
                          /\ ~books[b].is_active
    /\ \E b \in BookIds : /\ books[b] # NoBook
                          /\ books[b].seller # result.seller_id
                          /\ books[b].is_active

IsForecast == result.op = "calculate_demand_forecast"
IsSafetyStock == result.op = "calculate_safety_stock"

\* The order items of the last call's book placed in the last 90 days, and the
\* days they were placed on.
RecentRows == {k \in Rows : k.book = result.book_id /\ k.age <= 90}
RecentSaleDays == {k.age : k \in RecentRows}

C3_OneUnderThreeSaleDays ==
    (IsSafetyStock /\ Cardinality(RecentSaleDays) < 3) =>
        /\ Returned(result)
        /\ result.returned[1] = result.returned[2]

\* C3 amended: with fewer than 3 order items in the last 90 days, or with order
\* items that all have the same quantity, calculate_safety_stock returns exactly 1;
\* the formula is used only with at least 3 order items, however few days they
\* fall on.
C3_OneUnderThreeOrderItems ==
    (IsSafetyStock /\ (\/ SumOver(RecentRows, orderitems) < 3
                       \/ \A k, l \in RecentRows : k.quantity = l.quantity)) =>
        /\ Returned(result)
        /\ result.returned[1] = result.returned[2]

\* C3 witness: two order items of different quantities on two days gave 1.
C3_Witness ==
    /\ IsSafetyStock
    /\ Returned(result)
    /\ result.returned = <<1, 1>>
    /\ SumOver(RecentRows, orderitems) = 2
    /\ Cardinality(RecentSaleDays) = 2
    /\ \E k, l \in RecentRows : k.quantity # l.quantity

\* C9: for a book with no order item in the last 90 days, and every horizon,
\* calculate_demand_forecast returns the all-zero forecast with method no_data.
C9_NoDataForecast ==
    (IsForecast /\ RecentRows = {}) =>
        /\ Returned(result)
        /\ result.returned =
             [avg_daily_demand_x100 |-> 0,
              demand_std_x100 |-> 0,
              forecasted_demand_x100 |-> 0,
              confidence_interval |-> [lower_x100 |-> 0, upper_x100 |-> 0],
              data_points |-> 0,
              forecast_method |-> "no_data"]

\* C9 witness: the book's only sales are older than 90 days, another book sold
\* this month, and the forecast of 30 days was returned.
C9_Witness ==
    /\ IsForecast
    /\ result.days = 30
    /\ RecentRows = {}
    /\ \E k \in Rows : k.book = result.book_id /\ k.age > 90
    /\ \E k \in Rows : k.book # result.book_id /\ k.age <= 30
    /\ result.returned.forecast_method = "no_data"

\* C10: with exactly one sale-day in the window, and every horizon, the demand
\* standard deviation and the confidence margin are 0, both bounds of the
\* interval equal the forecasted demand, and the method is simple_moving_average.
C10_OneSaleDay ==
    (IsForecast /\ Cardinality(RecentSaleDays) = 1) =>
        /\ Returned(result)
        /\ result.locals.std_sq[1] = 0
        /\ result.locals.margin_sq[1] = 0
        /\ result.returned.demand_std_x100 = 0
        /\ result.returned.confidence_interval.lower_x100
             = result.returned.forecasted_demand_x100
        /\ result.returned.confidence_interval.upper_x100
             = result.returned.forecasted_demand_x100
        /\ result.returned.data_points = 1
        /\ result.returned.forecast_method = "simple_moving_average"

\* C10 witness: one sale-day with two orders of different quantities, forecast
\* over 30 days.
C10_Witness ==
    /\ IsForecast
    /\ result.days = 30
    /\ Cardinality(RecentSaleDays) = 1
    /\ \E k, l \in RecentRows : k.quantity # l.quantity
    /\ result.returned.forecasted_demand_x100 = 9000

IsEoq ==
    /\ result.op = "calculate_economic_order_quantity"
    /\ Returned(result)
    /\ result.returned # None

\* C1: whenever calculate_economic_order_quantity returns an analysis, with
\* reorder_point >= safety_stock >= 0, its status is CRITICAL iff
\* current_quantity <= safety_stock, LOW iff safety_stock < current_quantity <=
\* reorder_point, and OK iff current_quantity > reorder_point: exactly one of the
\* three.  The comparisons are made on the unrounded safety stock and reorder
\* point, the values get_stock_status is handed.
C1_StatusPartition ==
    IsEoq =>
        LET q == result.returned.current_quantity
            ss == result.locals.safety_stock
            rp == result.locals.reorder_point
            status == result.returned.stock_status.status
            critical == q * q * ss[2] <= ss[1]
            low == ~critical /\ LeqReal(q, 1, rp)
        IN /\ rp.root = ss /\ rp.plus[1] >= 0 /\ ss[1] >= 0
           /\ status \in {"CRITICAL", "LOW", "OK"}
           /\ (status = "CRITICAL") <=> critical
           /\ (status = "LOW") <=> low
           /\ (status = "OK") <=> (~critical /\ ~low)

\* A book that has sold, with exactly its safety stock on the shelf: the boundary
\* of CRITICAL.
C1_Witness ==
    /\ IsEoq
    /\ result.returned.annual_demand > 0
    /\ result.returned.current_quantity > 0
    /\ result.locals.safety_stock = <<1, 1>>
    /\ result.returned.current_quantity = 1
    /\ result.returned.stock_status.status = "CRITICAL"

IsTurnover == result.op = "calculate_stock_turnover"

RECURSIVE Factorial(_)
Factorial(n) == IF n = 0 THEN 1 ELSE n * Factorial(n - 1)

\* The order items of book b placed in the last days days.
SalesWithin(b, days) ==
    LET S == {k \in Rows : k.book = b /\ k.age <= days}
    IN SumOver(S, [k \in S |-> orderitems[k]])

\* Factorial(MaxStock) times the sum of the turnover ratios of the books of A:
\* every stock divides the factor, so the sum is a whole number.
ScaledRatioSum(A) ==
    SumOver(A, [b \in A |->
        IF books[b].quantity > 0
        THEN (Max2(12 * SalesWithin(b, 30), 4 * SalesWithin(b, 90)) * Factorial(MaxStock))
                \div books[b].quantity
        ELSE 0])

\* C11: calculate_stock_turnover covers exactly the seller's active books; its
\* average is the arithmetic mean of their turnover ratios (annual sales / stock,
\* 0 without stock), returned rounded to two decimals; for a seller without
\* active books the average is 0 and the three summary counts are 0.
C11_AverageIsMeanOfRatios ==
    IsTurnover =>
        LET A == SellersActiveItems
            n == Cardinality(A)
            avg == result.locals.avg_turnover
            r == result.returned
        IN /\ r.total_items = n
           /\ Len(r.books) = n
           /\ {r.books[i].book_id : i \in 1..n} = A
           /\ n = 0 => /\ r.average_turnover_x100 = 0
                       /\ r.turnover_summary = [high |-> 0, medium |-> 0, low |-> 0]
           /\ n > 0 => /\ avg[2] > 0
                       /\ avg[1] * n * Factorial(MaxStock) = avg[2] * ScaledRatioSum(A)
                       /\ r.average_turnover_x100
                            = RoundRat(100 * ScaledRatioSum(A), n * Factorial(MaxStock))

\* C11 witness: two active books with different ratios, neither of them 0, one of
\* them with more than one copy in stock.
C11_Witness ==
    /\ IsTurnover
    /\ result.returned.total_items = 2
    /\ result.returned.books[1].turnover_ratio_x100 > result.returned.books[2].turnover_ratio_x100
    /\ result.returned.books[2].turnover_ratio_x100 > 0
    /\ result.returned.books[1].current_stock > 1
    /\ 2 * result.returned.average_turnover_x100
         = result.returned.books[1].turnover_ratio_x100
           + result.returned.books[2].turnover_ratio_x100

\* calculate_economic_order_quantity was called for a book that exists.
IsEoqCall ==
    /\ result.op = "calculate_economic_order_quantity"
    /\ books[result.book_id] # NoBook

\* C12: for a book with no order item in the last 90 days the analysis is
\* returned with economic order quantity 1 and safety stock 1 (both unrounded and
\* as returned), the reorder point is the safety stock, and status and priority
\* follow from current_quantity alone: CRITICAL / HIGH up to 1, OK / LOW above.
C12_NoSalesFloors ==
    (IsEoqCall /\ SalesWithin(result.book_id, 90) = 0) =>
        /\ IsEoq
        /\ result.locals.eoq = <<1, 1>>
        /\ result.locals.safety_stock = <<1, 1>>
        /\ result.locals.reorder_point.plus[1] = 0
        /\ result.returned.economic_order_quantity = 1
        /\ result.returned.safety_stock = 1
        /\ result.returned.reorder_point = 1
        /\ result.returned.stock_status.status
             = (IF result.returned.current_quantity <= 1 THEN "CRITICAL" ELSE "OK")
        /\ result.returned.stock_status.priority
             = (IF result.returned.current_quantity <= 1 THEN "HIGH" ELSE "LOW")

\* C12 witness: a priced book with two copies or more whose only sales are older
\* than 90 days, while another book sold yesterday: the status is OK.
C12_Witness ==
    /\ IsEoq
    /\ result.returned.price > 0
    /\ result.returned.current_quantity >= 2
    /\ SalesWithin(result.book_id, 90) = 0
    /\ \E k \in Rows : k.book = result.book_id /\ k.age > 90
    /\ \E k \in Rows : k.book # result.book_id /\ k.age = 1
    /\ result.returned.economic_order_quantity = 1
    /\ result.returned.stock_status.status = "OK"

\* C13: in every analysis returned, holding_cost_per_unit is 15% of the price and
\* ordering_cost is 5; with holding_cost_per_unit > 0 and annual_demand > 0 the
\* economic order quantity is sqrt(2 * annual_demand * 5 / holding_cost_per_unit),
\* otherwise it is 1; the field returned is that value rounded to a whole
\* number.  For price 20 and annual demand 120 it is 20, with
\* holding_cost_per_unit 3.00 and ordering_cost 5.
C13_EoqFormula ==
    IsEoq =>
        LET r == result.returned
            eoq == result.locals.eoq
            e == r.economic_order_quantity
            h_x100 == 15 * r.price
        IN /\ r.holding_cost_per_unit_x100 = h_x100
           /\ r.ordering_cost = 5
           /\ r.annual_demand = Max2(12 * SalesWithin(result.book_id, 30),
                                     4 * SalesWithin(result.book_id, 90))
           /\ eoq[2] > 0
           /\ IF h_x100 > 0 /\ r.annual_demand > 0
              THEN /\ eoq[1] * h_x100 = eoq[2] * (2 * r.annual_demand * 5 * 100)
                   /\ e >= 0
                   /\ e > 0 => (2 * e - 1) * (2 * e - 1) * eoq[2] <= 4 * eoq[1]
                   /\ 4 * eoq[1] <= (2 * e + 1) * (2 * e + 1) * eoq[2]
              ELSE eoq = <<1, 1>> /\ e = 1
           /\ (r.price = 20 /\ r.annual_demand = 120) =>
                 e = 20 /\ r.holding_cost_per_unit_x100 = 300

\* C13 witness: the book of price 20 sold ten times this month: annual demand 120
\* and economic order quantity 20.
C13_Witness ==
    /\ IsEoq
    /\ result.returned.price = 20
    /\ result.returned.monthly_demand = 10
    /\ result.returned.annual_demand = 120
    /\ result.returned.holding_cost_per_unit_x100 = 300
    /\ result.returned.economic_order_quantity = 20

\* C14: in every analysis of a book with current_quantity <= 0 the
\* days_until_stockout of the stock status is 0, whatever the sales history, and
\* the call has not read the average daily demand.
C14_NoStockZeroDays ==
    (IsEoq /\ result.returned.current_quantity <= 0) =>
        /\ result.returned.stock_status.days_until_stockout = Tenths(0)
        /\ \A i \in 1..Len(result.reads) : result.reads[i] # "avg_daily_demand"

\* C14 witness: a book without stock that sold this month, analysed.
C14_Witness ==
    /\ IsEoq
    /\ result.returned.current_quantity = 0
    /\ result.returned.monthly_demand > 0
    /\ result.returned.stock_status.days_until_stockout = Tenths(0)
    /\ result.reads = <<"book_details", "demand_variability">>

\* The order items of any book placed in the last 30 days, and their days.
TrailingRows == {k \in Rows : k.age <= 30}
TrailingDays == {k.age : k \in TrailingRows}

IsRecommend ==
    /\ result.op = "get_inventory_recommendations"
    /\ Returned(result)

\* The five rules of generate_recommendations, in the order of the code.
Rules == <<"URGENT", "Monitor", "Focus", "Review", "Optimize">>

\* The count each rule tests and reports, read off the returned dict.
RuleCounts ==
    <<Len(result.returned.critical_items),
      Len(result.returned.low_stock_items),
      Len(result.returned.abc_analysis.A),
      Len(result.returned.abc_analysis.C),
      result.returned.turnover_analysis.turnover_summary.low>>

\* C16: the recommendations are exactly the rules URGENT, Monitor, Focus, Review,
\* Optimize whose count is positive, in that order, each once and each with its
\* count; a rule with count 0 contributes nothing.
C16_RecommendationsAreTheRulesThatHold ==
    IsRecommend =>
        LET recs == result.returned.recommendations
            Index(rule) == CHOOSE i \in 1..5 : Rules[i] = rule
        IN /\ \A j \in 1..Len(recs) :
                /\ \E i \in 1..5 : Rules[i] = recs[j].rule
                /\ recs[j].count = RuleCounts[Index(recs[j].rule)]
                /\ recs[j].count > 0
           /\ \A j, k \in 1..Len(recs) : j < k => Index(recs[j].rule) < Index(recs[k].rule)
           /\ \A i \in 1..5 : RuleCounts[i] > 0 => \E j \in 1..Len(recs) : recs[j].rule = Rules[i]

\* C16 witness: a seller with one critical book and one low on stock, for whom
\* all five rules hold.
C16_Witness ==
    /\ IsRecommend
    /\ Len(result.returned.recommendations) = 5
    /\ result.returned.summary.critical_items = 1
    /\ result.returned.summary.low_stock_items = 1
    /\ result.returned.turnover_analysis.turnover_summary.low = 1

\* The call of calculate_economic_order_quantity in progress issues its first
\* query in this step, and the query does not fail.
EoqFirstRead ==
    /\ Running(result)
    /\ result.op = "calculate_economic_order_quantity"
    /\ result.call.pc = "book_details"
    /\ result' # result
    /\ "failed" \notin DOMAIN result'

\* The analyses of the loop of get_inventory_recommendations that are not None.
PresentAnalyses ==
    {i \in 1..Len(result.locals.analyses) : result.locals.analyses[i].returned # None}

\* C17, the calls that ended: a None of calculate_economic_order_quantity came
\* after the first query alone, and get_inventory_recommendations counts the
\* analyses that are not None and files only those as critical or low.
C17_AbsentLeftOut ==
    /\ (result.op = "calculate_economic_order_quantity" /\ Returned(result)
          /\ result.returned = None) => result.reads = <<"book_details">>
    /\ IsRecommend =>
          LET r == result.returned
              Analysed(a) == \E i \in PresentAnalyses : result.locals.analyses[i].returned = a
          IN /\ Len(result.locals.analyses) = Len(result.locals.book_ids)
             /\ r.summary.total_books = Cardinality(PresentAnalyses)
             /\ r.summary.critical_items + r.summary.low_stock_items + r.summary.ok_items
                  = Cardinality(PresentAnalyses)
             /\ \A j \in 1..Len(r.critical_items) : Analysed(r.critical_items[j])
             /\ \A j \in 1..Len(r.low_stock_items) : Analysed(r.low_stock_items[j])

\* C17: calculate_economic_order_quantity returns None, after its first query
\* and without raising, exactly when no book has the id at that query; and
\* get_inventory_recommendations leaves the ids whose analysis is None out of the
\* summary counts and of the critical and low-stock lists.
C17_AbsentResult ==
    /\ []C17_AbsentLeftOut
    /\ [][EoqFirstRead =>
            ((books[result.book_id] = NoBook)
               <=> (Returned(result') /\ result'.returned = None))]_vars

\* C17 witness: a book was deleted between the query of the ids and its analysis;
\* the recommendations returned count one book fewer than ids were read.
C17_Witness ==
    /\ IsRecommend
    /\ Len(result.locals.book_ids) = 2
    /\ Cardinality(PresentAnalyses) = 1
    /\ result.returned.summary.total_books = 1

\* C18: a step of the engine (a call begun, a query issued, a call ended, a
\* query failed) leaves the engine's configuration and every book and order item
\* as they were; the configuration is the one of the constructor throughout.
C18_EngineReadsOnly ==
    /\ [](engine = NewEngine)
    /\ [][result' # result => UNCHANGED <<engine, books, orderitems>>]_vars

\* C18 witness: recommendations returned for a seller with two books and sales,
\* after nine queries.
C18_Witness ==
    /\ IsRecommend
    /\ Len(result.locals.book_ids) = 2
    /\ orderitems # EmptyBag
    /\ Len(result.reads) = 9

\* C19 as stated: what a call returns is what it would return on one state of
\* the data.  In the recommendations, summary.total_books, the books in the ABC
\* buckets and turnover_analysis.total_items then count the same books; in an EOQ
\* analysis, a book with no sale in its two counts has the default safety stock.
C19_OneSnapshot ==
    /\ IsRecommend =>
          /\ result.returned.summary.total_books
               = Len(result.returned.abc_analysis.A) + Len(result.returned.abc_analysis.B)
                 + Len(result.returned.abc_analysis.C)
          /\ result.returned.summary.total_books
               = result.returned.turnover_analysis.total_items
    /\ IsEoq =>
          (result.returned.annual_demand = 0 => result.locals.safety_stock = <<1, 1>>)

Failed(r) == "failed" \in DOMAIN r

\* C20, the call that ended in a failed query: it raised the error of the query,
\* returned nothing, kept nothing of what it had computed, and the failed query is
\* the last it issued.
C20_FailureEndsCall ==
    Failed(result) =>
        /\ "raised" \in DOMAIN result
        /\ result.raised = ReadError
        /\ ~Returned(result)
        /\ ~Running(result)
        /\ "locals" \notin DOMAIN result
        /\ result.failed = Len(result.reads)

\* C20: a query that fails ends the call with the error of the query: nothing is
\* returned, the query is not issued again, no other query follows it, and the
\* next query the engine issues is the first of a new call.
C20_FailureSurfaces ==
    /\ []C20_FailureEndsCall
    /\ [][(Failed(result) /\ result' # result) =>
            (Running(result') /\ result'.reads = <<>>) \/ ~Running(result')]_vars
    /\ [][(Failed(result) /\ result' # result /\ "reads" \in DOMAIN result') =>
            Len(result'.reads) <= 1]_vars

\* C20 witness: inside get_inventory_recommendations, the variability query of
\* the second book failed, after the first book had been analysed.
C20_Witness ==
    /\ Failed(result)
    /\ result.op = "get_inventory_recommendations"
    /\ result.failed >= 5
    /\ result.reads[result.failed] = "demand_variability"
    /\ result.raised = ReadError

\* The copies of the book of the last call sold on the day of age d.
SoldOn(d) ==
    LET S == {k \in RecentRows : k.age = d}
    IN SumOver(S, [k \in S |-> k.quantity * orderitems[k]])

\* The sum of the daily totals of the window, and of their squares.
SumOfDays == SumOver(RecentSaleDays, [d \in RecentSaleDays |-> SoldOn(d)])
SumOfSquares == SumOver(RecentSaleDays, [d \in RecentSaleDays |-> SoldOn(d) * SoldOn(d)])

\* C21: for a book with sales in the window and every horizon h, with n sale-days
\* of totals x, forecast f = mean(x) * h and margin m = 1.96 * std(x) * sqrt(h)
\* (population std), the interval returned is lower = round(max(0, f - m), 2) and
\* upper = round(f + m, 2): upper is within half a hundredth of f + m, lower is 0
\* when m >= f and within half a hundredth of f - m otherwise, and
\* 0 <= lower <= forecasted_demand <= upper.
C21_ConfidenceInterval ==
    (IsForecast /\ RecentRows # {}) =>
        LET n == Cardinality(RecentSaleDays)
            h == result.days
            v == n * SumOfSquares - SumOfDays * SumOfDays
            \* (200 n m) ** 2 and 200 n f
            m2 == 153664 * h * v
            f == 200 * SumOfDays * h
            F == result.returned.forecasted_demand_x100
            L == result.returned.confidence_interval.lower_x100
            U == result.returned.confidence_interval.upper_x100
            AtMostRoot(a) == a <= ISqrt(m2)
            AtLeastRoot(a) == a > ISqrt(m2) \/ (a = ISqrt(m2) /\ a * a = m2)
        IN /\ Returned(result)
           /\ FracLeq(result.locals.margin_sq[1], result.locals.margin_sq[2],
                      38416 * h * v, 10000 * n * n)
           /\ FracLeq(38416 * h * v, 10000 * n * n,
                      result.locals.margin_sq[1], result.locals.margin_sq[2])
           /\ F = RoundRat(100 * SumOfDays * h, n)
           /\ AtMostRoot((2 * U - 1) * n - f)
           /\ AtLeastRoot((2 * U + 1) * n - f)
           /\ IF 38416 * v >= 10000 * SumOfDays * SumOfDays * h
              THEN L = 0
              ELSE /\ AtLeastRoot(f - (2 * L - 1) * n)
                   /\ AtMostRoot(f - (2 * L + 1) * n)
           /\ 0 <= L /\ L <= F /\ F <= U

\* C21 witness: sale-days of 1 and 4 copies and a horizon of one day: the margin,
\* 2.94, is above the forecast, 2.5, and the interval is [0, 5.44].
C21_Witness ==
    /\ IsForecast
    /\ result.days = 1
    /\ {SoldOn(d) : d \in RecentSaleDays} = {1, 4}
    /\ result.returned.forecasted_demand_x100 = 250
    /\ result.returned.confidence_interval = [lower_x100 |-> 0, upper_x100 |-> 544]

\* C21 second case: the margin is below the forecast and the lower bound is
\* above 0.
C21_WitnessPositiveLower ==
    /\ IsForecast
    /\ result.days = 30
    /\ result.locals.margin_sq[1] > 0
    /\ result.returned.confidence_interval.lower_x100 > 0

\* C22: every entry of the report of calculate_stock_turnover is an active book
\* of the seller with annual_sales = max(12 * sales of 30 days, 4 * sales of 90
\* days) and turnover_ratio = annual_sales / current_stock with stock, 0 without
\* (to two decimals); its category is HIGH iff the ratio is >= 12, MEDIUM iff it
\* is >= 4 and < 12, LOW otherwise, so LOW without stock; and the three summary
\* counts are the numbers of entries of each category and add up to total_items.
C22_TurnoverCategories ==
    IsTurnover =>
        LET r == result.returned
            n == r.total_items
            count(c) == Cardinality({i \in 1..n : r.books[i].turnover_category = c})
        IN /\ Len(r.books) = n
           /\ \A i \in 1..n :
                LET e == r.books[i]
                    stock == books[e.book_id].quantity
                    annual == Max2(12 * SalesWithin(e.book_id, 30),
                                   4 * SalesWithin(e.book_id, 90))
                IN /\ e.book_id \in SellersActiveItems
                   /\ e.current_stock = stock
                   /\ e.annual_sales = annual
                   /\ e.turnover_ratio_x100
                        = (IF stock > 0 THEN RoundRat(100 * annual, stock) ELSE 0)
                   /\ e.turnover_category \in {"HIGH", "MEDIUM", "LOW"}
                   /\ (e.turnover_category = "HIGH") <=> (stock > 0 /\ annual >= 12 * stock)
                   /\ (e.turnover_category = "MEDIUM")
                        <=> (stock > 0 /\ annual >= 4 * stock /\ annual < 12 * stock)
                   /\ stock = 0 => e.turnover_category = "LOW"
           /\ r.turnover_summary = [high |-> count("HIGH"), medium |-> count("MEDIUM"),
                                    low |-> count("LOW")]
           /\ r.turnover_summary.high + r.turnover_summary.medium + r.turnover_summary.low = n

\* C22 witness: a book without stock that sold this month, LOW with ratio 0,
\* beside a book whose ratio is exactly 12, HIGH.
C22_Witness ==
    /\ IsTurnover
    /\ result.returned.total_items = 2
    /\ \E i, j \in 1..2 :
          /\ result.returned.books[i].current_stock = 0
          /\ result.returned.books[i].annual_sales > 0
          /\ result.returned.books[i].turnover_category = "LOW"
          /\ result.returned.books[j].turnover_ratio_x100 = 1200
          /\ result.returned.books[j].turnover_category = "HIGH"
    /\ result.returned.turnover_summary = [high |-> 1, medium |-> 0, low |-> 1]

\* C22 second case: a ratio of exactly 4 is MEDIUM, one just under it LOW.
C22_WitnessMedium ==
    /\ IsTurnover
    /\ result.returned.total_items = 2
    /\ \E i, j \in 1..2 :
          /\ result.returned.books[i].turnover_ratio_x100 = 400
          /\ result.returned.books[i].turnover_category = "MEDIUM"
          /\ result.returned.books[j].turnover_ratio_x100 = 300
          /\ result.returned.books[j].turnover_category = "LOW"

\* C23: in every analysis returned, annual_demand = max(12 * order items of 30
\* days, 4 * order items of 90 days), daily_demand = annual_demand / 365 (returned
\* to two decimals) and reorder_point = safety_stock + 7 * daily_demand; the
\* reorder point is never below the safety stock, unrounded and as returned, and
\* the two are equal when annual_demand is 0 (unrounded: only then).  The fields
\* returned are the two values rounded to whole numbers.
C23_ReorderPoint ==
    IsEoq =>
        LET r == result.returned
            ss == result.locals.safety_stock
            rp == result.locals.reorder_point
            annual == Max2(12 * SalesWithin(result.book_id, 30),
                           4 * SalesWithin(result.book_id, 90))
        IN /\ r.annual_demand = annual
           /\ r.daily_demand_x100 = RoundRat(100 * annual, 365)
           /\ rp.root = ss
           /\ rp.plus[2] > 0
           /\ rp.plus[1] * 365 = 7 * annual * rp.plus[2]
           /\ (rp.plus[1] = 0) <=> (annual = 0)
           /\ ss[2] > 0
           /\ (2 * r.safety_stock - 1) * (2 * r.safety_stock - 1) * ss[2] <= 4 * ss[1]
           /\ 4 * ss[1] <= (2 * r.safety_stock + 1) * (2 * r.safety_stock + 1) * ss[2]
           /\ LeqReal(2 * r.reorder_point - 1, 2, rp)
           /\ GeqReal(2 * r.reorder_point + 1, 2, rp)
           /\ r.reorder_point >= r.safety_stock
           /\ annual = 0 => r.reorder_point = r.safety_stock

\* C23 witness: a busy month, annual demand 120, with a safety stock above 1: the
\* reorder point returned is above the safety stock returned.
C23_Witness ==
    /\ IsEoq
    /\ result.returned.annual_demand = 120
    /\ result.locals.safety_stock[1] > result.locals.safety_stock[2]
    /\ result.returned.daily_demand_x100 = 33
    /\ result.returned.reorder_point > result.returned.safety_stock

\* C23 second case: a safety stock above 1 and no order item in the last 30 days
\* but some in the last 90: annual demand comes from the quarter.
C23_WitnessQuarter ==
    /\ IsEoq
    /\ result.returned.monthly_demand = 0
    /\ result.returned.annual_demand = 12
    /\ result.locals.safety_stock[1] > result.locals.safety_stock[2]

\* C24: in every analysis returned the economic order quantity eoq is above 0, so
\* the total is computed: total_annual_cost = (annual_demand / eoq) * 5
\* + (eoq / 2) * holding_cost_per_unit, to two decimals.  With the formula's eoq
\* (eoq ** 2 * holding_cost_per_unit = 10 * annual_demand) the two terms are equal
\* and the total is sqrt(10 * annual_demand * holding_cost_per_unit)
\* = sqrt(15000 * annual_demand * price) / 100; with eoq = 1 it is
\* 5 * annual_demand + holding_cost_per_unit / 2.
C24_TotalAnnualCost ==
    IsEoq =>
        LET r == result.returned
            eoq == result.locals.eoq
            a == Max2(12 * SalesWithin(result.book_id, 30),
                      4 * SalesWithin(result.book_id, 90))
            p == books[result.book_id].price
            t == r.total_annual_cost_x100
            j == 15000 * a * p
        IN /\ eoq[1] > 0 /\ eoq[2] > 0
           /\ r.annual_demand = a
           /\ r.holding_cost_per_unit_x100 = 15 * p
           /\ r.ordering_cost = 5
           /\ IF eoq = <<1, 1>>
              THEN /\ 2 * t - 1 <= 2 * (100 * 5 * a) + 15 * p
                   /\ 2 * (100 * 5 * a) + 15 * p <= 2 * t + 1
              ELSE \* eoq ** 2 * h = 10 a: the ordering and the holding term are equal
                   /\ eoq[1] * 15 * p = eoq[2] * 1000 * a
                   /\ t \in {ISqrt(j), ISqrt(j) + 1}
                   /\ (t = ISqrt(j)) <=> (j <= ISqrt(j) * ISqrt(j) + ISqrt(j))

\* C24 witness: price 20 and annual demand 120: eoq 20, six orders a year at 5
\* and ten copies held at 3.00, 60.00 in all.
C24_Witness ==
    /\ IsEoq
    /\ result.returned.price = 20
    /\ result.returned.annual_demand = 120
    /\ result.returned.economic_order_quantity = 20
    /\ result.returned.total_annual_cost_x100 = 6000

\* C24 second case: a free book that sold: eoq 1 and the ordering cost alone.
C24_WitnessFree ==
    /\ IsEoq
    /\ result.returned.price = 0
    /\ result.returned.annual_demand = 12
    /\ result.returned.total_annual_cost_x100 = 6000

\* The aggregates of the claim for the classification r: per bucket the number of
\* its items and the sum of their values; the counts add up to the number of
\* active items of the seller and the values to total_value.
AggregatesOf(r) ==
    LET cs == r.category_summary
        Value(l) == SeqSum([k \in 1..Len(l) |-> l[k].price * l[k].quantity])
    IN /\ \A c \in {"A", "B", "C"} : /\ cs[c].count = Len(r[c])
                                     /\ cs[c].value = Value(r[c])
       /\ cs.A.count + cs.B.count + cs.C.count = Cardinality(SellersActiveItems)
       /\ cs.A.value + cs.B.value + cs.C.value = r.total_value

\* C25: every result of perform_abc_analysis, that of a seller without active
\* books included, carries category_summary: per bucket the count of its items
\* and the sum of their inventory values, the counts adding up to the number of
\* active items and the values to total_value.
C25_AggregatesInEveryResult ==
    IsAbc =>
        /\ "category_summary" \in DOMAIN result.returned
        /\ AggregatesOf(result.returned)

\* C25, the catalogs with an active book: the aggregates are there and right.
C25_AggregatesOfCatalog ==
    (IsAbc /\ SellersActiveItems # {}) =>
        /\ "category_summary" \in DOMAIN result.returned
        /\ AggregatesOf(result.returned)

\* C25, the empty catalog: the result has the three buckets and the total only.
C25_EmptyCatalogBare ==
    (IsAbc /\ SellersActiveItems = {}) =>
        DOMAIN result.returned = {"A", "B", "C", "total_value"}

\* The analyses of the loop that are not None, in the order of the loop.
AnalysedItems ==
    LET Present(a) == a.returned # None
        present == SelectSeq(result.locals.analyses, Present)
    IN [i \in 1..Len(present) |-> present[i].returned]

\* C26: in every result of get_inventory_recommendations critical_items is the
\* list of the analysed items of status CRITICAL and low_stock_items the list of
\* those of status LOW, in the order analysed; no item is in both; the summary
\* counts are the lengths of the two lists and the number of analysed items, and
\* ok_items, the rest, is the number of items of status OK, so never negative.
C26_GroupsByStatus ==
    IsRecommend =>
        LET r == result.returned
            Status(a) == a.stock_status.status
            IsCritical(a) == Status(a) = "CRITICAL"
            IsLow(a) == Status(a) = "LOW"
            IsOk(a) == Status(a) = "OK"
        IN /\ \A i \in 1..Len(AnalysedItems) :
                Status(AnalysedItems[i]) \in {"CRITICAL", "LOW", "OK"}
           /\ r.critical_items = SelectSeq(AnalysedItems, IsCritical)
           /\ r.low_stock_items = SelectSeq(AnalysedItems, IsLow)
           /\ \A i \in 1..Len(r.critical_items), j \in 1..Len(r.low_stock_items) :
                r.critical_items[i].book_id # r.low_stock_items[j].book_id
           /\ r.summary.total_books = Len(AnalysedItems)
           /\ r.summary.critical_items = Len(r.critical_items)
           /\ r.summary.low_stock_items = Len(r.low_stock_items)
           /\ r.summary.ok_items = Len(SelectSeq(AnalysedItems, IsOk))
           /\ r.summary.ok_items >= 0
           /\ r.summary.critical_items + r.summary.low_stock_items + r.summary.ok_items
                = r.summary.total_books

\* C26 witness: two books analysed, one critical and one well stocked.
C26_Witness ==
    /\ IsRecommend
    /\ result.returned.summary
         = [total_books |-> 2, critical_items |-> 1, low_stock_items |-> 0, ok_items |-> 1]
    /\ Len(result.returned.critical_items) = 1
    /\ result.returned.critical_items[1].stock_status.status = "CRITICAL"

\* C26 second case: one book low on stock and one well stocked.
C26_WitnessLow ==
    /\ IsRecommend
    /\ result.returned.summary
         = [total_books |-> 2, critical_items |-> 0, low_stock_items |-> 1, ok_items |-> 1]
    /\ result.returned.low_stock_items[1].stock_status.status = "LOW"

\* The status the safety_stock and reorder_point fields of the analysis r give.
StatusOfFields(r) ==
    IF r.current_quantity <= r.safety_stock THEN "CRITICAL"
    ELSE IF r.current_quantity <= r.reorder_point THEN "LOW"
    ELSE "OK"

\* C27 as stated: the status of a returned analysis is CRITICAL iff
\* current_quantity <= the safety_stock field, and LOW iff the safety_stock field
\* < current_quantity <= the reorder_point field.
C27_StatusAgreesWithFields ==
    IsEoq =>
        LET r == result.returned
        IN /\ (r.stock_status.status = "CRITICAL") <=> (r.current_quantity <= r.safety_stock)
           /\ (r.stock_status.status = "LOW")
                <=> (r.safety_stock < r.current_quantity /\ r.current_quantity <= r.reorder_point)

\* C27 amended: the status is decided on the unrounded safety stock and reorder
\* point, CRITICAL iff current_quantity <= safety stock and LOW iff safety stock
\* < current_quantity <= reorder point, while the fields are the two values
\* rounded to whole units.  Below the safety_stock field the status is CRITICAL
\* and a CRITICAL item is at or below it; below the reorder_point field the
\* status is CRITICAL or LOW and such an item is at or below it; the status
\* differs from the one the fields give only for a current_quantity equal to a
\* field that was rounded up.
C27_StatusOnUnroundedValues ==
    IsEoq =>
        LET r == result.returned
            q == r.current_quantity
            ss == result.locals.safety_stock
            rp == result.locals.reorder_point
            st == r.stock_status.status
            critical == q * q * ss[2] <= ss[1]
            RoundedUpSafety == r.safety_stock * r.safety_stock * ss[2] > ss[1]
            RoundedUpReorder == ~LeqReal(r.reorder_point, 1, rp)
        IN /\ (st = "CRITICAL") <=> critical
           /\ (st = "LOW") <=> (~critical /\ LeqReal(q, 1, rp))
           /\ q < r.safety_stock => st = "CRITICAL"
           /\ st = "CRITICAL" => q <= r.safety_stock
           /\ q < r.reorder_point => st \in {"CRITICAL", "LOW"}
           /\ st \in {"CRITICAL", "LOW"} => q <= r.reorder_point
           /\ st # StatusOfFields(r) =>
                \/ q = r.safety_stock /\ RoundedUpSafety
                \/ q = r.reorder_point /\ RoundedUpReorder

\* C27 witness: a safety stock of 1.56 returned as 2 and two copies in stock: the
\* status is LOW, where the fields give CRITICAL.
C27_Witness ==
    /\ IsEoq
    /\ result.returned.current_quantity = 2
    /\ result.returned.safety_stock = 2
    /\ result.locals.safety_stock[1] < 4 * result.locals.safety_stock[2]
    /\ result.returned.stock_status.status = "LOW"

\* C27 second case: a reorder point of 1.69 returned as 2 and two copies in
\* stock: the status is OK, where the fields give LOW.
C27_WitnessReorder ==
    /\ IsEoq
    /\ result.returned.current_quantity = 2
    /\ result.returned.safety_stock = 1
    /\ result.returned.reorder_point = 2
    /\ result.returned.stock_status.status = "OK"

\* C28: the economic_order_quantity field of every analysis returned, the
\* economic order quantity rounded to a whole number, is at least 1, the minimum
\* order, whatever the price and the order items of the last 30 and 90 days.
C28_EoqAtLeastOne ==
    IsEoq => result.returned.economic_order_quantity >= 1

\* C28, where the floor holds: a free book, a book without an order item in the
\* last 90 days, and a book whose 10 * annual_demand is at least its holding cost
\* per unit have an economic order quantity of 1 or more.
C28_EoqAtLeastOneUnlessDear ==
    (IsEoq /\ (\/ result.returned.annual_demand = 0
               \/ result.returned.price = 0
               \/ 1000 * result.returned.annual_demand
                    >= result.returned.holding_cost_per_unit_x100)) =>
        /\ result.locals.eoq[1] >= result.locals.eoq[2]
        /\ result.returned.economic_order_quantity >= 1

\* The analyses the last call returned: that of calculate_economic_order_quantity,
\* or those of the loop of get_inventory_recommendations, each with the unrounded
\* safety stock it was computed from.
ReturnedAnalyses ==
    IF IsEoq
    THEN {[analysis |-> result.returned, safety_stock |-> result.locals.safety_stock]}
    ELSE IF IsRecommend
    THEN {[analysis |-> result.locals.analyses[i].returned,
           safety_stock |-> result.locals.analyses[i].locals.safety_stock] :
             i \in PresentAnalyses}
    ELSE {}

\* C29: in every stock status the engine returns, status and priority are
\* CRITICAL and HIGH, LOW and MEDIUM, or OK and LOW; the safety stock is at
\* least 1, so a book with current_quantity <= 0 is CRITICAL / HIGH, and its
\* days_until_stockout is 0.
C29_StatusPriorityPairs ==
    \A x \in ReturnedAnalyses :
        LET s == x.analysis.stock_status
        IN /\ <<s.status, s.priority>>
                \in {<<"CRITICAL", "HIGH">>, <<"LOW", "MEDIUM">>, <<"OK", "LOW">>}
           /\ x.safety_stock[2] > 0
           /\ x.safety_stock[1] >= x.safety_stock[2]
           /\ x.analysis.current_quantity <= 0 =>
                /\ s.status = "CRITICAL"
                /\ s.priority = "HIGH"
                /\ s.days_until_stockout = Tenths(0)

\* C29 witness: a book without stock that sold ten times this month, CRITICAL /
\* HIGH with 0 days, its reorder point above its safety stock.
C29_Witness ==
    /\ IsEoq
    /\ result.returned.current_quantity = 0
    /\ result.returned.annual_demand = 120
    /\ result.returned.reorder_point > result.returned.safety_stock
    /\ result.returned.stock_status
         = [status |-> "CRITICAL", priority |-> "HIGH", days_until_stockout |-> Tenths(0)]

\* C29 second case: a status of LOW, with priority MEDIUM.
C29_WitnessLow ==
    /\ IsEoq
    /\ result.returned.stock_status.status = "LOW"
    /\ result.returned.stock_status.priority = "MEDIUM"

IsOrderRequest(op) == result.op = op /\ result.before # NoOrder

\* C30: after any sequence of update_status, cancel_order and
\* verify_khalti_payment requests, an order whose status is 'cancelled' has
\* payment_status 'cancelled'; and a cancel_order request on an order whose status
\* is neither 'pending' nor 'paid' leaves the order as it was.
C30_CancelledOrderHasCancelledPayment ==
    /\ \A o \in OrderIds :
           orders[o] # NoOrder /\ orders[o].status = "cancelled"
               => orders[o].payment_status = "cancelled"
    /\ IsOrderRequest("cancel_order") /\ result.before.status \notin {"pending", "paid"}
           => orders[result.order] = result.before

\* The part of C30 about cancel_order alone: it answers 200 and cancels an order
\* that is 'pending' or 'paid', and answers 400 and leaves any other order as it
\* was.
C30_CancelOrderOnlyPendingOrPaid ==
    IsOrderRequest("cancel_order") =>
        IF result.before.status \in {"pending", "paid"}
        THEN /\ result.code = 200
             /\ orders[result.order].status = "cancelled"
             /\ orders[result.order].payment_status = "cancelled"
        ELSE /\ result.code = 400
             /\ orders[result.order] = result.before

\* The part of C30 about the requests that cancel: right after update_status to
\* 'cancelled' or a cancel_order answered 200, the payment is 'cancelled'.
C30_CancellingMarksPaymentCancelled ==
    /\ IsOrderRequest("cancel_order") /\ result.code = 200
           => orders[result.order].payment_status = "cancelled"
    /\ IsOrderRequest("update_status") /\ orders[result.order].status = "cancelled"
           /\ result.code = 200 /\ result.before.status # "cancelled"
           => orders[result.order].payment_status = "cancelled"

\* A verification that fails for an order cancelled before: the failing case of C30.
C30_VerifiedAfterCancel ==
    /\ IsOrderRequest("verify_khalti_payment")
    /\ result.before.status = "cancelled"
    /\ result.before.payment_status = "cancelled"
    /\ result.code \in {400, 500}
    /\ orders[result.order].status = "cancelled"
    /\ orders[result.order].payment_status = "failed"

\* A cancel_order refused for a shipped order, which stays as it was.
C30_CancelRefused ==
    /\ IsOrderRequest("cancel_order")
    /\ result.before.status = "shipped"
    /\ result.code = 400
    /\ orders[result.order] = result.before

========================================================================
